---- MODULE Spec2Model ----
(***************************************************************************)
(* Certificate Bulk Generator (src/amma/certificate_generator/app.py):     *)
(* serial arithmetic, pattern location, run-aware text substitution and    *)
(* document assembly.  Text is a sequence of one-character strings.         *)
(* Serene chatbot backend (src/serene_chatbot/backend): chat sessions,     *)
(* message handling and lead storage.  Batch watermark remover             *)
(* (src/watermark_remover.py) and interior-design editor (src/app.py).     *)
(***************************************************************************)
EXTENDS Integers, Sequences, FiniteSets, TLC

VARIABLES
    pc,         \* position of the driver: "call" before the operation, "done" after
    op,         \* which function the driver applies
    args,       \* its arguments
    ret,        \* its result: [ok |-> TRUE, val |-> ...] or [ok |-> FALSE] (exception)
    runs,       \* the runs of the paragraph under substitution, in order
    before,     \* the runs as they were when the call was made
    written,    \* indexes of the runs whose text the call assigned
    template_bytes,  \* st.session_state.template_bytes: the uploaded template
    field_mappings,  \* st.session_state.selected_fields: the field mappings of the run
    seen,       \* what generate_certificate returned first for each certificate index
    batch,      \* the run started by the Generate button: its settings, the loop
                \* counter, the certificates made so far and what the page shows
    now,        \* datetime.now() of the chatbot backend, in hours
    sessions,   \* ChatService.sessions: session id -> ChatSession
    added,      \* every message given to add_message of the session, in call order
    leads,      \* the content of LEADS_FILE: the stored leads, in file order
    uploaded_files,       \* the files held by the watermark remover's uploader
    processed_images,     \* st.session_state.processed_images
    processing_complete,  \* st.session_state.processing_complete
    loop,       \* the batch loop of the watermark remover: its counters and results
    uploaded_image,   \* whether the editor's uploader holds a room image
    generated_image,  \* st.session_state.generated_image of the editor
    edit_history      \* st.session_state.edit_history of the editor

paraVars == <<runs, before, written>>
docVars == <<template_bytes, field_mappings, seen>>
batchVars == <<batch>>
serviceVars == <<now, sessions, added, leads>>
watermarkVars == <<uploaded_files, processed_images, processing_complete, loop>>
editorVars == <<uploaded_image, generated_image, edit_history>>
generatorVars == <<paraVars, docVars, batchVars>>
vars == <<pc, op, args, ret, runs, before, written, template_bytes, field_mappings, seen,
         batch, now, sessions, added, leads, uploaded_files, processed_images,
         processing_complete, loop, uploaded_image, generated_image, edit_history>>

\* None of Python
None == "None"

\* the batch loop of the watermark remover is not running
NoLoop == [active |-> FALSE, aborted |-> FALSE, idx |-> 0, successful |-> 0, failed |-> 0,
           failed_files |-> <<>>, results |-> <<>>]

\* the chatbot backend after start-up: no session (ChatService.__init__), an empty
\* leads file (_ensure_storage_exists)
ServicesAtStart ==
    /\ now = 0
    /\ sessions = <<>>
    /\ added = <<>>
    /\ leads = <<>>

\* the watermark remover's page when first loaded
WatermarkAtStart ==
    /\ uploaded_files = <<>>
    /\ processed_images = <<>>
    /\ processing_complete = FALSE
    /\ loop = NoLoop

\* the editor's page when first loaded
EditorAtStart ==
    /\ uploaded_image = FALSE
    /\ generated_image = None
    /\ edit_history = <<>>

----------------------------------------------------------------------------
(* Bounds of the model *)

MaxSerialLen == 3
MaxDelta == 2
MaxTextLen == 4
MaxPieceLen == 2
MaxNumbers == 2
MaxTokens == 4
MaxParaLen == 4
MaxRuns == 3
MaxBlocks == 2
MaxIndex == 1
MaxCount == 2
MaxOldLen == 3

----------------------------------------------------------------------------
(* Python string primitives *)

Digits == {"0", "1", "2", "3", "4", "5", "6", "7", "8", "9"}
Letters == {"A", "B"}
Blank == " "

DigitVal(c) ==
    CASE c = "0" -> 0 [] c = "1" -> 1 [] c = "2" -> 2 [] c = "3" -> 3
      [] c = "4" -> 4 [] c = "5" -> 5 [] c = "6" -> 6 [] c = "7" -> 7
      [] c = "8" -> 8 [] c = "9" -> 9

DigitChar(d) ==
    CASE d = 0 -> "0" [] d = 1 -> "1" [] d = 2 -> "2" [] d = 3 -> "3"
      [] d = 4 -> "4" [] d = 5 -> "5" [] d = 6 -> "6" [] d = 7 -> "7"
      [] d = 8 -> "8" [] d = 9 -> "9"

\* All sequences over S of length at most n.
SeqUpTo(S, n) == UNION {[1..k -> S] : k \in 0..n}

Max(S) == CHOOSE x \in S : \A y \in S : y <= x
Min(S) == CHOOSE x \in S : \A y \in S : x <= y

\* text[a:b] with 0-based half-open bounds already clipped to the text
Slice(text, a, b) == SubSeq(text, a + 1, b)

\* text[a:b] of Python: bounds beyond the end are clipped
PySlice(text, a, b) ==
    LET lo == IF a > Len(text) THEN Len(text) ELSE a
        hi == IF b > Len(text) THEN Len(text) ELSE b
    IN  SubSeq(text, lo + 1, hi)

\* the 0-based offsets at which old occurs in text
Occurrences(text, old) ==
    {p \in 0..(Len(text) - Len(old)) : Slice(text, p, p + Len(old)) = old}

\* old in text
PyIn(old, text) == Occurrences(text, old) # {}

\* text.find(old) and text.rfind(old)
PyFind(text, old) ==
    IF Occurrences(text, old) = {} THEN -1 ELSE Min(Occurrences(text, old))

PyRfind(text, old) ==
    IF Occurrences(text, old) = {} THEN -1 ELSE Max(Occurrences(text, old))

\* str(n) for an integer n
RECURSIVE NatStr(_)
NatStr(n) == IF n < 10 THEN <<DigitChar(n)>> ELSE NatStr(n \div 10) \o <<DigitChar(n % 10)>>

PyStr(n) == IF n < 0 THEN <<"-">> \o NatStr(-n) ELSE NatStr(n)

\* s.zfill(width): zeros go after a leading sign
Zeros(k) == [j \in 1..k |-> "0"]

PyZfill(s, width) ==
    IF Len(s) >= width THEN s
    ELSE IF Len(s) > 0 /\ s[1] \in {"+", "-"}
         THEN <<s[1]>> \o Zeros(width - Len(s)) \o Tail(s)
         ELSE Zeros(width - Len(s)) \o s

\* s.strip() on blanks
RECURSIVE LStrip(_)
LStrip(s) == IF Len(s) > 0 /\ s[1] = Blank THEN LStrip(Tail(s)) ELSE s

RECURSIVE RStrip(_)
RStrip(s) ==
    IF Len(s) > 0 /\ s[Len(s)] = Blank THEN RStrip(SubSeq(s, 1, Len(s) - 1)) ELSE s

PyStrip(s) == LStrip(RStrip(s))

\* value of a sequence of digits and single underscores between digits
RECURSIVE DigitsValue(_)
DigitsValue(s) ==
    IF Len(s) = 0 THEN 0
    ELSE IF s[Len(s)] = "_" THEN DigitsValue(SubSeq(s, 1, Len(s) - 1))
    ELSE 10 * DigitsValue(SubSeq(s, 1, Len(s) - 1)) + DigitVal(s[Len(s)])

\* the body of an integer literal: digits, with single underscores only between digits
IsIntBody(s) ==
    /\ Len(s) > 0
    /\ \A j \in 1..Len(s) : s[j] \in Digits \cup {"_"}
    /\ s[1] # "_" /\ s[Len(s)] # "_"
    /\ \A j \in 1..(Len(s) - 1) : ~(s[j] = "_" /\ s[j + 1] = "_")

\* int(s): blanks around are stripped, one sign is allowed; ValueError otherwise
PyInt(s) ==
    LET t == PyStrip(s)
        signed == Len(t) > 0 /\ t[1] \in {"+", "-"}
        body == IF signed THEN Tail(t) ELSE t
    IN  IF IsIntBody(body)
        THEN [ok |-> TRUE,
              val |-> IF signed /\ t[1] = "-" THEN -DigitsValue(body) ELSE DigitsValue(body)]
        ELSE [ok |-> FALSE]

----------------------------------------------------------------------------
(* Serial arithmetic *)

\* a variant that keeps the width by cutting the number to its last len(serial) digits
\* a variant that numbers the certificates from one
increment_serial_from_one(serial, increment, preserve_length) ==
    LET num == PyInt(serial)
    IN  IF ~num.ok THEN [ok |-> FALSE]
        ELSE LET new_num == num.val + increment + 1
             IN  IF preserve_length
                 THEN [ok |-> TRUE, val |-> PyZfill(PyStr(new_num), Len(serial))]
                 ELSE [ok |-> TRUE, val |-> PyStr(new_num)]

increment_serial_truncating(serial, increment, preserve_length) ==
    LET num == PyInt(serial)
    IN  IF ~num.ok THEN [ok |-> FALSE]
        ELSE LET s == PyStr(num.val + increment)
                 w == Len(serial)
             IN  IF preserve_length
                 THEN [ok |-> TRUE,
                       val |-> IF Len(s) > w THEN SubSeq(s, Len(s) - w + 1, Len(s))
                               ELSE PyZfill(s, w)]
                 ELSE [ok |-> TRUE, val |-> s]

increment_serial(serial, increment, preserve_length) ==
    LET num == PyInt(serial)
    IN  IF ~num.ok THEN [ok |-> FALSE]
        ELSE LET new_num == num.val + increment
             IN  IF preserve_length
                 THEN [ok |-> TRUE, val |-> PyZfill(PyStr(new_num), Len(serial))]
                 ELSE [ok |-> TRUE, val |-> PyStr(new_num)]

\* a variant that rewrites the leftmost occurrence
replace_first_occurrence(text, old, new) ==
    LET first_pos == PyFind(text, old)
    IN  IF first_pos = -1 THEN text
        ELSE Slice(text, 0, first_pos) \o new \o Slice(text, first_pos + Len(old), Len(text))

replace_last_occurrence(text, old, new) ==
    LET last_pos == PyRfind(text, old)
    IN  IF last_pos = -1 THEN text
        ELSE Slice(text, 0, last_pos) \o new \o Slice(text, last_pos + Len(old), Len(text))

----------------------------------------------------------------------------
(* Replacement text of a multi-number mapping (generate_certificate, *)
(* generate_preview_text)                                             *)

\* for num in numbers_list: pos = new_text.rfind(num); if pos != -1: append((pos, num))
RECURSIVE NumberPositions(_, _)
NumberPositions(new_text, numbers_list) ==
    IF numbers_list = <<>> THEN <<>>
    ELSE LET num == Head(numbers_list)
             pos == PyRfind(new_text, num)
         IN  (IF pos # -1 THEN <<[pos |-> pos, num |-> num]>> ELSE <<>>)
             \o NumberPositions(new_text, Tail(numbers_list))

\* number_positions.sort(key=lambda x: x[0], reverse=True): stable, equal keys keep their order
RECURSIVE SortByPosDescending(_)
SortByPosDescending(number_positions) ==
    IF number_positions = <<>> THEN <<>>
    ELSE LET top == Max({number_positions[j].pos : j \in 1..Len(number_positions)})
             IsTop(e) == e.pos = top
             NotTop(e) == e.pos # top
         IN  SelectSeq(number_positions, IsTop)
             \o SortByPosDescending(SelectSeq(number_positions, NotTop))

\* for pos, num in number_positions: new_text = new_text[:pos] + new_num + new_text[pos + len(num):]
RECURSIVE ReplaceNumbers(_, _, _)
ReplaceNumbers(new_text, number_positions, increment) ==
    IF number_positions = <<>> THEN [ok |-> TRUE, val |-> new_text]
    ELSE LET pos == Head(number_positions).pos
             num == Head(number_positions).num
             new_num == increment_serial(num, increment, TRUE)
         IN  IF ~new_num.ok THEN [ok |-> FALSE]
             ELSE ReplaceNumbers(
                    PySlice(new_text, 0, pos) \o new_num.val
                        \o PySlice(new_text, pos + Len(num), Len(new_text)),
                    Tail(number_positions), increment)

multi_number_text(old_text, numbers_list, increment) ==
    ReplaceNumbers(old_text,
                   SortByPosDescending(NumberPositions(old_text, numbers_list)),
                   increment)

----------------------------------------------------------------------------
(* Pattern locator *)

SlashMinDigits == 3
StandaloneMinDigits == 4

\* \w of the regular expressions
IsWordChar(c) == c \in Digits \cup Letters \cup {"_"}

\* \b at 0-based offset q of text
WordBoundary(text, q) ==
    LET wordLeft == q >= 1 /\ IsWordChar(text[q])
        wordRight == q < Len(text) /\ IsWordChar(text[q + 1])
    IN  wordLeft # wordRight

AllDigits(text, a, b) == \A j \in (a + 1)..b : text[j] \in Digits

\* end offset of the match of /(\d{3,})\b attempted at offset p, or -1: the
\* quantifier is greedy, so the longest digit run that ends at a boundary wins
SlashMatchEnd(text, p) ==
    LET ends == {e \in (p + 1 + SlashMinDigits)..Len(text) :
                    /\ text[p + 1] = "/"
                    /\ AllDigits(text, p + 1, e)
                    /\ WordBoundary(text, e)}
    IN  IF p < Len(text) /\ ends # {} THEN Max(ends) ELSE -1

\* end offset of the match of \b(\d{4,})\b attempted at offset p, or -1
StandaloneMatchEnd(text, p) ==
    LET ends == {e \in (p + StandaloneMinDigits)..Len(text) :
                    /\ WordBoundary(text, p)
                    /\ AllDigits(text, p, e)
                    /\ WordBoundary(text, e)}
    IN  IF p < Len(text) /\ ends # {} THEN Max(ends) ELSE -1

\* re.finditer: leftmost matches, scanning on from the end of each match
RECURSIVE SlashMatches(_, _)
SlashMatches(text, p) ==
    IF p >= Len(text) THEN <<>>
    ELSE LET e == SlashMatchEnd(text, p)
         IN  IF e = -1 THEN SlashMatches(text, p + 1)
             ELSE <<[full_match |-> Slice(text, p, e), number |-> Slice(text, p + 1, e),
                     start |-> p, end |-> e, pattern_type |-> "slash_number"]>>
                  \o SlashMatches(text, e)

RECURSIVE StandaloneMatches(_, _)
StandaloneMatches(text, p) ==
    IF p >= Len(text) THEN <<>>
    ELSE LET e == StandaloneMatchEnd(text, p)
         IN  IF e = -1 THEN StandaloneMatches(text, p + 1)
             ELSE <<[full_match |-> Slice(text, p, e), number |-> Slice(text, p, e),
                     start |-> p, end |-> e, pattern_type |-> "standalone_number"]>>
                  \o StandaloneMatches(text, e)

\* a variant whose duplicate test compares positions instead of digit strings
RECURSIVE AppendStandaloneByPosition(_, _)
AppendStandaloneByPosition(patterns, matches) ==
    IF matches = <<>> THEN patterns
    ELSE LET m == Head(matches)
             already_found == \E j \in 1..Len(patterns) :
                                  patterns[j].start + 1 = m.start /\ patterns[j].end = m.end
         IN  AppendStandaloneByPosition(
                 IF already_found THEN patterns ELSE Append(patterns, m), Tail(matches))

\* the second loop: a standalone match is appended unless its number is already listed
RECURSIVE AppendStandalone(_, _)
AppendStandalone(patterns, matches) ==
    IF matches = <<>> THEN patterns
    ELSE LET m == Head(matches)
             already_found == \E j \in 1..Len(patterns) : patterns[j].number = m.number
         IN  AppendStandalone(IF already_found THEN patterns ELSE Append(patterns, m),
                              Tail(matches))

find_serial_patterns(text) ==
    AppendStandalone(SlashMatches(text, 0), StandaloneMatches(text, 0))

----------------------------------------------------------------------------
(* Driver of the pure text functions: Init draws the call, the action applies it *)

SerialChars == {"0", "1", "9", "-", "+", " ", "A", "_"}
SerialInputs == SeqUpTo(SerialChars, MaxSerialLen)
Deltas == 0..MaxDelta

TextChars == {"1", "/"}
Texts == SeqUpTo(TextChars, MaxTextLen)
Pieces == SeqUpTo(TextChars, MaxPieceLen)

\* search texts of manual mappings and the numbers listed for them: the digit
\* strings that stand in the text, and two that may not
FullMatches == SeqUpTo({"A", "1", "9"}, MaxTextLen)
NumbersIn(full) ==
    {n \in SeqUpTo({"1", "9"}, MaxPieceLen) \ {<<>>} : PyIn(n, full)} \cup {<<"1">>, <<"9">>}
NumberLists(full) == SeqUpTo(NumbersIn(full), MaxNumbers) \ {<<>>}

\* texts scanned for serial patterns: up to MaxTokens pieces put side by side
PatternTokens ==
    {<<"/">>, <<" ">>, <<"A">>, <<"2">>, <<"1", "1", "1">>, <<"1", "1", "1", "1">>}

RECURSIVE Flatten(_)
Flatten(ss) == IF ss = <<>> THEN <<>> ELSE Head(ss) \o Flatten(Tail(ss))

PatternTexts == {Flatten(ts) : ts \in SeqUpTo(PatternTokens, MaxTokens)}

\* "1687/2526/1"
ExampleText == <<"1", "6", "8", "7", "/", "2", "5", "2", "6", "/", "1">>

NoRet == [ok |-> FALSE, pending |-> TRUE]

NoRuns == <<>>

InitText ==
    /\ pc = "call"
    /\ ret = NoRet
    /\ runs = NoRuns /\ before = NoRuns /\ written = {}
    /\ template_bytes = <<>> /\ field_mappings = <<>> /\ seen = <<>>
    /\ batch = <<>>
    /\ ServicesAtStart /\ WatermarkAtStart /\ EditorAtStart
    /\ \/ /\ op = "increment_serial"
          /\ args \in [serial : SerialInputs, increment : Deltas, preserve_length : BOOLEAN]
       \/ /\ op = "replace_last_occurrence"
          /\ args \in [text : Texts, old : Pieces \ {<<>>}, new : Pieces]
                        \cup {[text |-> ExampleText, old |-> <<"1">>, new |-> <<"2">>]}
       \/ /\ op = "multi_number_text"
          /\ \E full \in FullMatches :
                args \in [full_match : {full}, numbers : NumberLists(full), increment : Deltas]
       \/ /\ op = "find_serial_patterns"
          /\ args \in [text : PatternTexts]

IncrementSerial ==
    /\ pc = "call" /\ op = "increment_serial"
    /\ ret' = increment_serial(args.serial, args.increment, args.preserve_length)
    /\ pc' = "done"
    /\ UNCHANGED <<op, args, paraVars, docVars, batchVars, serviceVars, watermarkVars, editorVars>>

ReplaceLastOccurrence ==
    /\ pc = "call" /\ op = "replace_last_occurrence"
    /\ ret' = [ok |-> TRUE, val |-> replace_last_occurrence(args.text, args.old, args.new)]
    /\ pc' = "done"
    /\ UNCHANGED <<op, args, paraVars, docVars, batchVars, serviceVars, watermarkVars, editorVars>>

MultiNumberText ==
    /\ pc = "call" /\ op = "multi_number_text"
    /\ ret' = multi_number_text(args.full_match, args.numbers, args.increment)
    /\ pc' = "done"
    /\ UNCHANGED <<op, args, paraVars, docVars, batchVars, serviceVars, watermarkVars, editorVars>>

FindSerialPatterns ==
    /\ pc = "call" /\ op = "find_serial_patterns"
    /\ ret' = [ok |-> TRUE, val |-> find_serial_patterns(args.text)]
    /\ pc' = "done"
    /\ UNCHANGED <<op, args, paraVars, docVars, batchVars, serviceVars, watermarkVars, editorVars>>

NextText ==
    \/ IncrementSerial
    \/ ReplaceLastOccurrence
    \/ MultiNumberText
    \/ FindSerialPatterns

SpecText == InitText /\ [][NextText]_vars

----------------------------------------------------------------------------
(* Run-aware substitution in a paragraph *)

\* s.replace(old, new) for a non-empty old: every occurrence, left to right,
\* without overlap
RECURSIVE PyReplaceFrom(_, _, _, _)
PyReplaceFrom(s, old, new, p) ==
    IF p >= Len(s) THEN <<>>
    ELSE IF p + Len(old) <= Len(s) /\ Slice(s, p, p + Len(old)) = old
         THEN new \o PyReplaceFrom(s, old, new, p + Len(old))
         ELSE <<s[p + 1]>> \o PyReplaceFrom(s, old, new, p + 1)

PyReplace(s, old, new) == PyReplaceFrom(s, old, new, 0)

\* paragraph.text: the run texts laid end to end
RECURSIVE ParagraphText(_)
ParagraphText(rs) ==
    IF rs = <<>> THEN <<>> ELSE Head(rs).text \o ParagraphText(Tail(rs))

\* run_boundaries[i] = (run_start, run_end) with 0-based offsets
RunStart(rs, i) == Len(ParagraphText(SubSeq(rs, 1, i - 1)))
RunEnd(rs, i) == RunStart(rs, i) + Len(rs[i].text)

\* a variant that returns the paragraph with its text gathered in the first run
NoChangeMerged(rs) ==
    [runs |-> IF rs = <<>> THEN rs
              ELSE [j \in 1..Len(rs) |->
                      [rs[j] EXCEPT !.text = IF j = 1 THEN ParagraphText(rs) ELSE <<>>]],
     written |-> 1..Len(rs), path |-> "none"]

NoChange(rs) == [runs |-> rs, written |-> {}, path |-> "none"]

\* a variant that empties the run in which old_text ends instead of keeping its rest
RECURSIVE ClearFollowingWhole(_, _, _, _)
ClearFollowingWhole(rs, j, remaining_to_clear, wr) ==
    IF j > Len(rs) \/ remaining_to_clear <= 0
    THEN [runs |-> rs, written |-> wr, path |-> "spanning"]
    ELSE ClearFollowingWhole([rs EXCEPT ![j].text = <<>>], j + 1,
                             remaining_to_clear - Len(rs[j].text), wr \cup {j})

\* the loop that clears the text of old_text from the runs after the first one
RECURSIVE ClearFollowing(_, _, _, _)
ClearFollowing(rs, j, remaining_to_clear, wr) ==
    IF j > Len(rs) THEN [runs |-> rs, written |-> wr, path |-> "spanning"]
    ELSE LET next_run_len == Len(rs[j].text)
         IN  IF remaining_to_clear >= next_run_len
             THEN ClearFollowing([rs EXCEPT ![j].text = <<>>], j + 1,
                                 remaining_to_clear - next_run_len, wr \cup {j})
             ELSE [runs |-> [rs EXCEPT ![j].text =
                                 PySlice(rs[j].text, remaining_to_clear, Len(rs[j].text))],
                   written |-> wr \cup {j}, path |-> "spanning"]

\* the text spans several runs
ReplaceSpanning(rs, old_text, new_text) ==
    LET full_text == ParagraphText(rs)
        start_pos == PyFind(full_text, old_text)
        end_pos == start_pos + Len(old_text)
        hit == {i \in 1..Len(rs) : RunStart(rs, i) <= start_pos /\ start_pos < RunEnd(rs, i)}
    IN  IF hit = {} THEN NoChange(rs)
        ELSE LET i == Min(hit)
                 text_before == PySlice(rs[i].text, 0, start_pos - RunStart(rs, i))
             IN  IF end_pos <= RunEnd(rs, i)
                 THEN LET text_after ==
                            PySlice(rs[i].text, end_pos - RunStart(rs, i), Len(rs[i].text))
                      IN  [runs |-> [rs EXCEPT ![i].text = text_before \o new_text \o text_after],
                           written |-> {i}, path |-> "spanning"]
                 ELSE ClearFollowing([rs EXCEPT ![i].text = text_before \o new_text],
                                     i + 1, end_pos - RunEnd(rs, i), {i})

\* a variant whose same-run case rewrites the last run that holds the text
replace_in_last_run(rs, old_text, new_text) ==
    LET holders == {k \in 1..Len(rs) : PyIn(old_text, rs[k].text)}
    IN  IF ~PyIn(old_text, ParagraphText(rs)) \/ rs = <<>> THEN NoChange(rs)
        ELSE IF holders # {}
        THEN [runs |-> [rs EXCEPT ![Max(holders)].text =
                            PyReplace(rs[Max(holders)].text, old_text, new_text)],
              written |-> {Max(holders)}, path |-> "same_run"]
        ELSE ReplaceSpanning(rs, old_text, new_text)

replace_in_paragraph(rs, old_text, new_text) ==
    LET full_text == ParagraphText(rs)
        holders == {k \in 1..Len(rs) : PyIn(old_text, rs[k].text)}
    IN  IF ~PyIn(old_text, full_text) THEN NoChange(rs)
        ELSE IF rs = <<>> THEN NoChange(rs)
        ELSE IF holders # {}
        THEN LET k == Min(holders)
             IN  [runs |-> [rs EXCEPT ![k].text = PyReplace(rs[k].text, old_text, new_text)],
                  written |-> {k}, path |-> "same_run"]
        ELSE ReplaceSpanning(rs, old_text, new_text)

----------------------------------------------------------------------------
(* Driver of replace_in_paragraph: Init draws the paragraph and the texts *)

ParaChars == {"1", "/"}
RunTexts == SeqUpTo(ParaChars, MaxParaLen)

\* every way to cut a text of at most MaxParaLen characters into at most MaxRuns
\* runs, empty runs included; the format of a run is its place in the template
RECURSIVE Cuts(_, _)
Cuts(t, r) ==
    IF r = 0 THEN (IF t = <<>> THEN {<<>>} ELSE {})
    ELSE UNION {{<<Slice(t, 0, c)>> \o rest : rest \in Cuts(Slice(t, c, Len(t)), r - 1)} :
                    c \in 0..Len(t)}

Paragraphs ==
    {[j \in 1..Len(ts) |-> [text |-> ts[j], fmt |-> j]] :
        ts \in UNION {Cuts(t, r) : t \in RunTexts, r \in 0..MaxRuns}}

\* old_text long enough to cover a whole run between the runs where it starts and ends
OldTexts == SeqUpTo(ParaChars, MaxOldLen) \ {<<>>}
NewTexts == SeqUpTo(ParaChars, MaxPieceLen)

InitPara ==
    /\ pc = "call"
    /\ op = "replace_in_paragraph"
    /\ args \in [old_text : OldTexts, new_text : NewTexts]
    /\ ret = NoRet
    /\ runs \in Paragraphs
    /\ before = runs
    /\ written = {}
    /\ template_bytes = <<>> /\ field_mappings = <<>> /\ seen = <<>>
    /\ batch = <<>>
    /\ ServicesAtStart /\ WatermarkAtStart /\ EditorAtStart

ReplaceInParagraph ==
    /\ pc = "call" /\ op = "replace_in_paragraph"
    /\ LET r == replace_in_paragraph(runs, args.old_text, args.new_text)
       IN  /\ runs' = r.runs
           /\ written' = r.written
           /\ ret' = [ok |-> TRUE, val |-> r.path]
    /\ before' = runs
    /\ pc' = "done"
    /\ UNCHANGED <<op, args, docVars, batchVars, serviceVars, watermarkVars, editorVars>>

NextPara == ReplaceInParagraph

SpecPara == InitPara /\ [][NextPara]_vars

----------------------------------------------------------------------------
(* Documents.  A body is a sequence of blocks: paragraphs                   *)
(*   [kind |-> "p", runs, pbb, marker], tables [kind |-> "tbl", rows] with  *)
(* rows of cells, a cell being a sequence of paragraphs, and the section    *)
(* properties [kind |-> "sectPr"] that close the body.  pbb counts the      *)
(* w:pageBreakBefore elements of the paragraph; marker counts those that    *)
(* create_combined_document put there and synthetic tells the paragraphs    *)
(* it created.                                                              *)

Newline == "\n"

IsBlankText(t) == \A j \in 1..Len(t) : t[j] \in {Blank, Newline}

\* positions in body of the blocks of one kind, in order: doc.paragraphs, doc.tables
RECURSIVE KindPositionsFrom(_, _, _)
KindPositionsFrom(body, kind, b) ==
    IF b > Len(body) THEN <<>>
    ELSE (IF body[b].kind = kind THEN <<b>> ELSE <<>>) \o KindPositionsFrom(body, kind, b + 1)

DocParagraphs(body) == KindPositionsFrom(body, "p", 1)
DocTables(body) == KindPositionsFrom(body, "tbl", 1)

\* cell.text: the paragraphs of the cell joined by newlines
RECURSIVE CellText(_)
CellText(cell) ==
    IF cell = <<>> THEN <<>>
    ELSE IF Len(cell) = 1 THEN ParagraphText(cell[1].runs)
    ELSE ParagraphText(cell[1].runs) \o <<Newline>> \o CellText(Tail(cell))

ParagraphReplaced(para, old_text, new_text) ==
    [para EXCEPT !.runs = replace_in_paragraph(para.runs, old_text, new_text).runs]

replace_in_table_cell(cell, old_text, new_text) ==
    [j \in 1..Len(cell) |-> ParagraphReplaced(cell[j], old_text, new_text)]

Unhighlighted(para) ==
    [para EXCEPT !.runs = [j \in 1..Len(para.runs) |-> [para.runs[j] EXCEPT !.highlight = FALSE]]]

\* a variant that leaves out the tables
remove_highlighting_paragraphs(body) ==
    [b \in 1..Len(body) |-> IF body[b].kind = "p" THEN Unhighlighted(body[b]) ELSE body[b]]

remove_highlighting(body) ==
    [b \in 1..Len(body) |->
        IF body[b].kind = "p" THEN Unhighlighted(body[b])
        ELSE IF body[b].kind = "tbl"
        THEN [body[b] EXCEPT !.rows =
                [r \in 1..Len(body[b].rows) |->
                    [c \in 1..Len(body[b].rows[r]) |->
                        [q \in 1..Len(body[b].rows[r][c]) |->
                            Unhighlighted(body[b].rows[r][c][q])]]]]
        ELSE body[b]]

\* a variant that searches the body paragraphs and not the tables
SearchAndReplaceParagraphs(body, old_text, new_text) ==
    [b \in 1..Len(body) |->
        IF body[b].kind = "p" /\ PyIn(old_text, ParagraphText(body[b].runs))
        THEN ParagraphReplaced(body[b], old_text, new_text)
        ELSE body[b]]

\* search and replace in the entire document: every body paragraph and every
\* cell of every table whose text holds old_text
SearchAndReplace(body, old_text, new_text) ==
    [b \in 1..Len(body) |->
        IF body[b].kind = "p"
        THEN IF PyIn(old_text, ParagraphText(body[b].runs))
             THEN ParagraphReplaced(body[b], old_text, new_text)
             ELSE body[b]
        ELSE IF body[b].kind = "tbl"
        THEN [body[b] EXCEPT !.rows =
                [r \in 1..Len(body[b].rows) |->
                    [c \in 1..Len(body[b].rows[r]) |->
                        IF PyIn(old_text, CellText(body[b].rows[r][c]))
                        THEN replace_in_table_cell(body[b].rows[r][c], old_text, new_text)
                        ELSE body[b].rows[r][c]]]]
        ELSE body[b]]

\* a variant that searches the whole document when the indexed paragraph is
\* missing or does not hold old_text
ReplaceAtParagraphOrSearch(body, para_idx, old_text, new_text) ==
    IF /\ para_idx < Len(DocParagraphs(body))
       /\ PyIn(old_text, ParagraphText(body[DocParagraphs(body)[para_idx + 1]].runs))
    THEN [body EXCEPT ![DocParagraphs(body)[para_idx + 1]] =
              ParagraphReplaced(@, old_text, new_text)]
    ELSE SearchAndReplace(body, old_text, new_text)

\* a variant that takes the last paragraph when the index is past the end
ReplaceAtParagraphClamped(body, para_idx, old_text, new_text) ==
    IF DocParagraphs(body) = <<>> THEN body
    ELSE LET last == Len(DocParagraphs(body))
             b == DocParagraphs(body)[IF para_idx + 1 > last THEN last ELSE para_idx + 1]
         IN  [body EXCEPT ![b] = ParagraphReplaced(body[b], old_text, new_text)]

\* mapping['type'] == 'paragraph'
ReplaceAtParagraph(body, para_idx, old_text, new_text) ==
    IF para_idx < Len(DocParagraphs(body))
    THEN LET b == DocParagraphs(body)[para_idx + 1]
         IN  [body EXCEPT ![b] = ParagraphReplaced(body[b], old_text, new_text)]
    ELSE body

\* mapping['type'] == 'table_cell'
ReplaceAtCell(body, table_idx, row_idx, cell_idx, old_text, new_text) ==
    IF table_idx < Len(DocTables(body))
    THEN LET b == DocTables(body)[table_idx + 1]
         IN  IF row_idx < Len(body[b].rows) /\ cell_idx < Len(body[b].rows[row_idx + 1])
             THEN [body EXCEPT ![b].rows[row_idx + 1][cell_idx + 1] =
                        replace_in_table_cell(@, old_text, new_text)]
             ELSE body
    ELSE body

\* one turn of the loop over field_mappings
ApplyMapping(body, mapping, increment) ==
    LET old_text == mapping.pattern.full_match
    IN  IF mapping.type = "manual" /\ mapping.pattern.has_numbers
        THEN LET new_text == multi_number_text(old_text, mapping.pattern.numbers, increment)
             IN  IF ~new_text.ok THEN [ok |-> FALSE]
                 ELSE [ok |-> TRUE, body |-> SearchAndReplace(body, old_text, new_text.val)]
        ELSE LET old_serial == mapping.pattern.number
                 new_serial == increment_serial(old_serial, increment, TRUE)
             IN  IF ~new_serial.ok THEN [ok |-> FALSE]
                 ELSE LET new_text == replace_last_occurrence(old_text, old_serial, new_serial.val)
                      IN  [ok |-> TRUE,
                           body |->
                             IF mapping.type = "paragraph"
                             THEN ReplaceAtParagraph(body, mapping.para_idx, old_text, new_text)
                             ELSE IF mapping.type = "table_cell"
                             THEN ReplaceAtCell(body, mapping.table_idx, mapping.row_idx,
                                                mapping.cell_idx, old_text, new_text)
                             ELSE IF mapping.type = "manual"
                             THEN SearchAndReplace(body, old_text, new_text)
                             ELSE body]

\* for mapping in field_mappings: an exception ends the loop
RECURSIVE ApplyMappings(_, _, _)
ApplyRest(r, mappings, increment) ==
    IF ~r.ok THEN [ok |-> FALSE] ELSE ApplyMappings(r.body, mappings, increment)

ApplyMappings(body, mappings, increment) ==
    IF mappings = <<>> THEN [ok |-> TRUE, body |-> body]
    ELSE ApplyRest(ApplyMapping(body, Head(mappings), increment), Tail(mappings), increment)

\* Document(io.BytesIO(template_bytes)): a fresh tree read from the bytes
Document(bytes) == bytes.body

\* a variant that keeps the incremented serial in the mapping it was computed for
RECURSIVE StoreSerials(_, _)
StoreSerials(mappings, increment) ==
    IF mappings = <<>> THEN <<>>
    ELSE LET m == Head(mappings)
             n == increment_serial(m.pattern.number, increment, TRUE)
         IN  <<IF n.ok THEN [m EXCEPT !.pattern.number = n.val] ELSE m>>
             \o StoreSerials(Tail(mappings), increment)

\* what a call hands back: the document (none when an exception was raised)
\* and the arguments as the call leaves them
Generated(r, bytes, mappings) ==
    [ok |-> r.ok, doc |-> IF r.ok THEN r.body ELSE <<>>,
     template_bytes |-> bytes, field_mappings |-> mappings]

generate_certificate_storing(bytes, mappings, increment) ==
    Generated(ApplyMappings(remove_highlighting(Document(bytes)), mappings, increment),
              bytes, StoreSerials(mappings, increment))

generate_certificate(bytes, mappings, increment) ==
    Generated(ApplyMappings(remove_highlighting(Document(bytes)), mappings, increment),
              bytes, mappings)

----------------------------------------------------------------------------
(* Combined document and blank-page cleanup *)

\* ''.join(para.itertext()): all the text of a paragraph element
ParaItertext(para) == ParagraphText(para.runs)

\* a w:br of type page somewhere in the paragraph, or w:pageBreakBefore in its pPr
HasPageBreak(para) == (\E j \in 1..Len(para.runs) : para.runs[j].br) \/ para.pbb > 0

\* first pass, paragraph number i (1-based) of the list paragraphs, found at body[paragraphs[i]]
MarkedInFirstPass(body, paragraphs, i) ==
    LET b == paragraphs[i]
        para == body[b]
        has_content == ~IsBlankText(ParaItertext(para))
        has_page_break == HasPageBreak(para)
        next_has_break == i + 1 <= Len(paragraphs) /\ body[paragraphs[i + 1]].pbb > 0
        has_any_content == \E j \in 1..Len(para.runs) :
                              para.runs[j].drawing \/ ~IsBlankText(para.runs[j].text)
        prev_is_empty_paragraph ==
            /\ b - 1 >= 1
            /\ body[b - 1].kind = "p"
            /\ IsBlankText(ParaItertext(body[b - 1]))
    IN  IF has_page_break /\ ~has_content /\ next_has_break THEN TRUE
        ELSE /\ ~has_content /\ ~has_page_break
             /\ ~has_any_content
             /\ prev_is_empty_paragraph

\* body without the blocks at the positions in gone
RECURSIVE WithoutFrom(_, _, _)
WithoutFrom(body, gone, b) ==
    IF b > Len(body) THEN <<>>
    ELSE (IF b \in gone THEN <<>> ELSE <<body[b]>>) \o WithoutFrom(body, gone, b + 1)

Without(body, gone) == WithoutFrom(body, gone, 1)

\* second pass: the loop over the runs that sets only_has_break
RECURSIVE OnlyHasBreakFrom(_, _, _)
OnlyHasBreakFrom(rs, j, only_has_break) ==
    IF j > Len(rs) THEN only_has_break
    ELSE IF rs[j].drawing THEN FALSE
    ELSE OnlyHasBreakFrom(rs, j + 1, only_has_break \/ rs[j].br)

RemovedInSecondPass(para) ==
    /\ IsBlankText(ParaItertext(para))
    /\ OnlyHasBreakFrom(para.runs, 1, FALSE)
    /\ Len(para.runs) <= 1

\* first pass: the marked paragraphs are removed once all have been looked at
FirstPass(body, paragraphs) ==
    Without(body, {paragraphs[i] : i \in {k \in 1..Len(paragraphs) :
                                            MarkedInFirstPass(body, paragraphs, k)}})

SecondPass(body) ==
    Without(body, {b \in 1..Len(body) : body[b].kind = "p" /\ RemovedInSecondPass(body[b])})

remove_blank_pages(body) == SecondPass(FirstPass(body, DocParagraphs(body)))

\* elements_to_copy: the body elements of a certificate except sectPr
ElementsToCopy(body) ==
    LET IsContent(x) == x.kind # "sectPr"
    IN  SelectSeq(body, IsContent)

PageBreakParagraph == [kind |-> "p", runs |-> <<>>, pbb |-> 1, marker |-> 1, synthetic |-> TRUE]

\* a variant that leaves out the page break
AppendCertificateNoBreak(combined, cert_body) == combined \o ElementsToCopy(cert_body)

\* one turn of the loop for i in range(1, count): the elements of a certificate appended
\* to the combined body, a page break before the first of them
AppendCertificate(combined, cert_body) ==
    LET elements_to_copy == ElementsToCopy(cert_body)
    IN  IF elements_to_copy = <<>> THEN combined
        ELSE LET first_element == elements_to_copy[1]
             IN  IF first_element.kind = "p"
                 THEN combined
                      \o <<[first_element EXCEPT !.pbb = @ + 1, !.marker = @ + 1]>>
                      \o Tail(elements_to_copy)
                 ELSE IF first_element.kind = "tbl"
                 THEN combined \o <<PageBreakParagraph>> \o elements_to_copy
                 ELSE combined \o elements_to_copy

\* for i in range(1, count): an exception in generate_certificate ends the loop
RECURSIVE AppendCertificates(_, _, _, _, _)
AppendNext(combined, cert_doc, bytes, mappings, i, count) ==
    IF ~cert_doc.ok THEN [ok |-> FALSE]
    ELSE AppendCertificates(AppendCertificate(combined, cert_doc.doc),
                            bytes, mappings, i + 1, count)

AppendCertificates(combined, bytes, mappings, i, count) ==
    IF i >= count THEN [ok |-> TRUE, body |-> combined]
    ELSE AppendNext(combined, generate_certificate(bytes, mappings, i),
                    bytes, mappings, i, count)

\* the body assembled by the loop, before the cleanup: certificate 0 is the base
AssembledFrom(combined_doc, bytes, mappings, count) ==
    IF ~combined_doc.ok THEN [ok |-> FALSE]
    ELSE AppendCertificates(combined_doc.doc, bytes, mappings, 1, count)

AssembledDocument(bytes, mappings, count) ==
    AssembledFrom(generate_certificate(bytes, mappings, 0), bytes, mappings, count)

\* save_doc_to_bytes(doc)
save_doc_to_bytes(body) == [body |-> body]

CombinedResult(r, bytes, mappings) ==
    IF ~r.ok
    THEN [ok |-> FALSE, assembled |-> <<>>, doc |-> <<>>,
          template_bytes |-> bytes, field_mappings |-> mappings]
    ELSE [ok |-> TRUE, assembled |-> r.body,
          doc |-> save_doc_to_bytes(remove_blank_pages(r.body)),
          template_bytes |-> bytes, field_mappings |-> mappings]

\* a variant that assembles the certificates in the template itself
create_combined_document_in_place(bytes, mappings, count) ==
    LET r == CombinedResult(AssembledDocument(bytes, mappings, count), bytes, mappings)
    IN  [r EXCEPT !.template_bytes = IF r.ok THEN r.doc ELSE bytes]

create_combined_document(bytes, mappings, count) ==
    CombinedResult(AssembledDocument(bytes, mappings, count), bytes, mappings)

----------------------------------------------------------------------------
(* Driver of the document functions: Init draws the template and the field  *)
(* mappings of the run, the actions are the calls made on them              *)

Run(text) == [text |-> text, fmt |-> "plain", highlight |-> FALSE, br |-> FALSE, drawing |-> FALSE]
Para(rs, pbb) == [kind |-> "p", runs |-> rs, pbb |-> pbb, marker |-> 0, synthetic |-> FALSE]
Table(rows) == [kind |-> "tbl", rows |-> rows]
SectPr == [kind |-> "sectPr"]

SerialText == <<"/", "9", "9">>
SerialNumber == <<"9", "9">>

SerialParagraph == Para(<<[Run(SerialText) EXCEPT !.highlight = TRUE]>>, 0)
SplitParagraph ==
    Para(<<[Run(<<"/", "9">>) EXCEPT !.highlight = TRUE, !.fmt = "bold"], Run(<<"9">>)>>, 0)
EmptyParagraph == Para(<<>>, 0)
BreakBeforeEmpty == Para(<<>>, 1)
BreakBeforeText == Para(<<Run(<<"A">>)>>, 1)
PageBreakRun == Para(<<[Run(<<>>) EXCEPT !.br = TRUE]>>, 0)
ImageParagraph == Para(<<[Run(<<>>) EXCEPT !.drawing = TRUE]>>, 0)
\* one row, one cell of two paragraphs
SerialTable == Table(<<<<<<SerialParagraph, Para(<<Run(<<"A">>)>>, 0)>>>>>>)

BlockCatalogue ==
    {SplitParagraph, EmptyParagraph, BreakBeforeEmpty, BreakBeforeText, PageBreakRun,
     ImageParagraph, SerialTable}

\* the uploaded templates: up to MaxBlocks blocks, closed by the section properties
Templates == {[body |-> blocks \o <<SectPr>>] : blocks \in SeqUpTo(BlockCatalogue, MaxBlocks)}

Pattern(full_match, number) ==
    [full_match |-> full_match, number |-> number, has_numbers |-> FALSE, numbers |-> <<>>]
ManualPattern(full_match, numbers) ==
    [full_match |-> full_match, number |-> numbers[1], has_numbers |-> TRUE, numbers |-> numbers]

ParagraphMapping(para_idx, pattern) ==
    [type |-> "paragraph", para_idx |-> para_idx, table_idx |-> 0, row_idx |-> 0,
     cell_idx |-> 0, pattern |-> pattern]
TableCellMapping(table_idx, row_idx, cell_idx, pattern) ==
    [type |-> "table_cell", para_idx |-> 0, table_idx |-> table_idx, row_idx |-> row_idx,
     cell_idx |-> cell_idx, pattern |-> pattern]
ManualMapping(pattern) ==
    [type |-> "manual", para_idx |-> 0, table_idx |-> 0, row_idx |-> 0, cell_idx |-> 0,
     pattern |-> pattern]

\* the selections of fields a run is made with
MappingLists ==
    {<<>>,
     <<ParagraphMapping(0, Pattern(SerialText, SerialNumber))>>,
     <<TableCellMapping(0, 0, 0, Pattern(SerialText, SerialNumber))>>,
     <<ManualMapping(Pattern(SerialText, SerialNumber))>>,
     <<ManualMapping(ManualPattern(SerialText, <<SerialNumber>>))>>,
     <<ParagraphMapping(1, Pattern(SerialText, SerialNumber)),
       ManualMapping(ManualPattern(<<"A">>, <<<<"A">>>>))>>,
     <<ParagraphMapping(1, Pattern(SerialText, SerialNumber)),
       ManualMapping(Pattern(SerialText, SerialNumber))>>,
     <<TableCellMapping(0, 0, 1, Pattern(SerialText, SerialNumber)),
       TableCellMapping(0, 0, 0, Pattern(SerialText, SerialNumber))>>,
     <<TableCellMapping(0, 0, 0, Pattern(SerialText, SerialNumber)),
       TableCellMapping(0, 0, 0, Pattern(SerialText, SerialNumber))>>,
     <<ManualMapping(Pattern(<<"/", "9">>, <<"9">>)),
       ManualMapping(Pattern(SerialText, SerialNumber))>>}

CertIndexes == 0..MaxIndex
Counts == 1..MaxCount

InitDoc ==
    /\ pc = "idle"
    /\ op = "none"
    /\ args = <<>>
    /\ ret = NoRet
    /\ runs = NoRuns /\ before = NoRuns /\ written = {}
    /\ template_bytes \in Templates
    /\ field_mappings \in MappingLists
    /\ seen = [i \in CertIndexes |-> NoRet]
    /\ batch = <<>>
    /\ ServicesAtStart /\ WatermarkAtStart /\ EditorAtStart

GenerateCertificate(i) ==
    /\ pc \in {"idle", "done"}
    /\ \E r \in {generate_certificate(template_bytes, field_mappings, i)} :
           /\ ret' = [ok |-> r.ok, doc |-> r.doc, repeated |-> seen[i] # NoRet]
           /\ seen' = IF seen[i] = NoRet
                       THEN [seen EXCEPT ![i] = [ok |-> r.ok, doc |-> r.doc]]
                       ELSE seen
           /\ template_bytes' = r.template_bytes
           /\ field_mappings' = r.field_mappings
    /\ op' = "generate_certificate"
    /\ args' = [increment |-> i]
    /\ pc' = "done"
    /\ UNCHANGED <<paraVars, batchVars, serviceVars, watermarkVars, editorVars>>

CreateCombinedDocument(count) ==
    /\ pc \in {"idle", "done"}
    /\ \E r \in {create_combined_document(template_bytes, field_mappings, count)} :
           /\ ret' = [ok |-> r.ok, doc |-> r.doc, assembled |-> r.assembled]
           /\ template_bytes' = r.template_bytes
           /\ field_mappings' = r.field_mappings
    /\ op' = "create_combined_document"
    /\ args' = [count |-> count]
    /\ pc' = "done"
    /\ UNCHANGED <<paraVars, seen, batchVars, serviceVars, watermarkVars, editorVars>>

NextDoc ==
    \/ \E i \in CertIndexes : GenerateCertificate(i)
    \/ \E count \in Counts : CreateCombinedDocument(count)

SpecDoc == InitDoc /\ [][NextDoc]_vars

----------------------------------------------------------------------------
(* The Generate button of main: one batch in one of the two output formats.  *)
(* The loops run one certificate per step; an exception raised in a step is   *)
(* caught by the except clause that closes the batch.                         *)

ZipFormat == "Individual files (ZIP)"
CombinedFormat == "Combined document"
OutputFormats == {ZipFormat, CombinedFormat}

\* the certificate at which generation raises for a reason of its own (the document
\* cannot be read, memory runs out), if there is one in this batch
NoFault == -1
Faults == {NoFault} \cup (0..(MaxCount - 1))

NoBatch ==
    [output_format |-> "none", num_certificates |-> 0, fault |-> NoFault, i |-> 0,
     generated |-> <<>>, zip_file |-> <<>>, combined_doc |-> <<>>,
     download |-> <<>>, success |-> FALSE, error |-> FALSE]

\* generate_certificate as the batch calls it
GenerateInBatch(b, bytes, mappings) ==
    IF b.fault = b.i THEN [ok |-> FALSE]
    ELSE generate_certificate(bytes, mappings, b.i)

\* except Exception as e: st.error(...), st.code(traceback)
Failed(b) == [pc |-> "failed", batch |-> [b EXCEPT !.error = TRUE]]

\* a variant that goes on with the next certificate after a failure
Skipped(b) == [pc |-> "zip_loop", batch |-> [b EXCEPT !.i = @ + 1]]

ZipEntry(cert_serial, cert_doc) ==
    [name |-> <<"Certificate_">> \o cert_serial \o <<".docx">>,
     data |-> save_doc_to_bytes(cert_doc.doc)]

\* the file name and the entry, once the certificate is there
ZipWritten(b, cert_doc, cert_serial) ==
    IF ~cert_serial.ok THEN Failed(b)
    ELSE [pc |-> "zip_loop",
          batch |-> [b EXCEPT !.zip_file = Append(@, ZipEntry(cert_serial.val, cert_doc)),
                              !.i = @ + 1]]

ZipGenerated(b, cert_doc, mappings) ==
    IF ~cert_doc.ok THEN Failed(b)
    ELSE ZipWritten(b, cert_doc, increment_serial(mappings[1].pattern.number, b.i, TRUE))

zip_iteration_skipping(b, bytes, mappings) ==
    IF GenerateInBatch(b, bytes, mappings).ok
    THEN ZipGenerated(b, GenerateInBatch(b, bytes, mappings), mappings)
    ELSE Skipped(b)

\* one turn of for i in range(num_certificates)
zip_iteration(b, bytes, mappings) ==
    ZipGenerated([b EXCEPT !.generated = Append(@, b.i)],
                 GenerateInBatch(b, bytes, mappings), mappings)

\* combined_doc = generate_certificate(template_bytes, field_mappings, 0)
CombinedBased(b, combined_doc) ==
    IF ~combined_doc.ok THEN Failed(b)
    ELSE [pc |-> "combined_loop",
          batch |-> [b EXCEPT !.combined_doc = combined_doc.doc, !.i = 1]]

combined_base(b, bytes, mappings) ==
    CombinedBased([b EXCEPT !.generated = Append(@, b.i)], GenerateInBatch(b, bytes, mappings))

\* one turn of for i in range(1, count)
CombinedAppended(b, cert_doc) ==
    IF ~cert_doc.ok THEN Failed(b)
    ELSE [pc |-> "combined_loop",
          batch |-> [b EXCEPT !.combined_doc = AppendCertificate(@, cert_doc.doc),
                              !.i = @ + 1]]

combined_iteration(b, bytes, mappings) ==
    CombinedAppended([b EXCEPT !.generated = Append(@, b.i)],
                     GenerateInBatch(b, bytes, mappings))

InitBatch ==
    /\ pc = "idle"
    /\ op = "none"
    /\ args = <<>>
    /\ ret = NoRet
    /\ runs = NoRuns /\ before = NoRuns /\ written = {}
    /\ template_bytes \in Templates
    /\ field_mappings \in MappingLists
    /\ seen = <<>>
    /\ batch = NoBatch
    /\ ServicesAtStart /\ WatermarkAtStart /\ EditorAtStart

\* st.button("Generate Certificates"), shown when fields are selected
ClickGenerate(output_format, num_certificates, fault) ==
    /\ pc = "idle"
    /\ field_mappings # <<>>
    /\ batch' = [NoBatch EXCEPT !.output_format = output_format,
                                !.num_certificates = num_certificates,
                                !.fault = fault]
    /\ pc' = IF output_format = ZipFormat THEN "zip_loop" ELSE "combined_base"
    /\ UNCHANGED <<op, args, ret, paraVars, docVars, serviceVars, watermarkVars, editorVars>>

ZipIteration ==
    /\ pc = "zip_loop"
    /\ batch.i < batch.num_certificates
    /\ \E r \in {zip_iteration(batch, template_bytes, field_mappings)} :
           pc' = r.pc /\ batch' = r.batch
    /\ UNCHANGED <<op, args, ret, paraVars, docVars, serviceVars, watermarkVars, editorVars>>

ZipDownload ==
    /\ pc = "zip_loop"
    /\ batch.i >= batch.num_certificates
    /\ batch' = [batch EXCEPT !.success = TRUE,
                              !.download = <<[file_name |-> "certificates.zip",
                                              data |-> batch.zip_file]>>]
    /\ pc' = "done"
    /\ UNCHANGED <<op, args, ret, paraVars, docVars, serviceVars, watermarkVars, editorVars>>

CombinedBase ==
    /\ pc = "combined_base"
    /\ \E r \in {combined_base(batch, template_bytes, field_mappings)} :
           pc' = r.pc /\ batch' = r.batch
    /\ UNCHANGED <<op, args, ret, paraVars, docVars, serviceVars, watermarkVars, editorVars>>

CombinedIteration ==
    /\ pc = "combined_loop"
    /\ batch.i < batch.num_certificates
    /\ \E r \in {combined_iteration(batch, template_bytes, field_mappings)} :
           pc' = r.pc /\ batch' = r.batch
    /\ UNCHANGED <<op, args, ret, paraVars, docVars, serviceVars, watermarkVars, editorVars>>

\* remove_blank_pages, save_doc_to_bytes, then the success message and the download button
CombinedDownload ==
    /\ pc = "combined_loop"
    /\ batch.i >= batch.num_certificates
    /\ batch' = [batch EXCEPT !.success = TRUE,
                              !.download =
                                  <<[file_name |-> "certificates_combined.docx",
                                     data |-> save_doc_to_bytes(
                                                  remove_blank_pages(batch.combined_doc))]>>]
    /\ pc' = "done"
    /\ UNCHANGED <<op, args, ret, paraVars, docVars, serviceVars, watermarkVars, editorVars>>

NextBatch ==
    \/ \E output_format \in OutputFormats, num_certificates \in Counts, fault \in Faults :
           ClickGenerate(output_format, num_certificates, fault)
    \/ ZipIteration
    \/ ZipDownload
    \/ CombinedBase
    \/ CombinedIteration
    \/ CombinedDownload

SpecBatch == InitBatch /\ [][NextBatch]_vars

----------------------------------------------------------------------------
(* Claims on serial arithmetic *)

IsDigitString(s) == Len(s) > 0 /\ \A j \in 1..Len(s) : s[j] \in Digits

RECURSIVE Pow10(_)
Pow10(k) == IF k = 0 THEN 1 ELSE 10 * Pow10(k - 1)

\* number of decimal digits of n >= 0
NumDigits(n) == Min({k \in 1..(MaxSerialLen + MaxDelta + 2) : n < Pow10(k)})

SerialDone == pc = "done" /\ op = "increment_serial"

\* C1: for a digit string s and delta >= 0, increment_serial(s, delta) with length
\* preservation succeeds and returns the decimal digits of value(s)+delta padded
\* with zeros on the left to len(s): exactly len(s) long when the sum fits, and
\* the full untruncated number (longer than s) when it does not.
C1_WidthPreservation ==
    (SerialDone /\ IsDigitString(args.serial) /\ args.preserve_length) =>
        LET sum == DigitsValue(args.serial) + args.increment
        IN  /\ ret.ok
            /\ IsDigitString(ret.val)
            /\ DigitsValue(ret.val) = sum
            /\ Len(ret.val) = Max({Len(args.serial), NumDigits(sum)})
            /\ (NumDigits(sum) <= Len(args.serial) => Len(ret.val) = Len(args.serial))
            /\ (NumDigits(sum) > Len(args.serial) => ret.val = NatStr(sum))

\* the sum gained a digit: "99" + 1
C1_Witness ==
    /\ SerialDone /\ IsDigitString(args.serial) /\ args.preserve_length
    /\ ret.ok /\ Len(ret.val) > Len(args.serial)

\* C2: increment_serial raises exactly on the inputs that are not a non-empty
\* sequence of decimal digits (empty, letters, a sign, surrounding blanks) and
\* succeeds on every digit string.
C2_InvalidSerialRejected ==
    SerialDone => (ret.ok <=> IsDigitString(args.serial))

\* old stands in t at 0-based offset p
OccursAt(t, o, p) ==
    /\ p >= 0 /\ p + Len(o) <= Len(t)
    /\ \A j \in 1..Len(o) : t[p + j] = o[j]

\* C3: replace_last_occurrence rewrites only the rightmost occurrence of old
\* (prefix and suffix around it unchanged, so every earlier occurrence is kept)
\* and returns text unchanged when old does not occur.
C3_RightmostOccurrence ==
    (pc = "done" /\ op = "replace_last_occurrence") =>
        LET t == args.text
            o == args.old
            n == args.new
            r == ret.val
        IN  IF \A p \in 0..Len(t) : ~OccursAt(t, o, p)
            THEN r = t
            ELSE \E p \in 0..Len(t) :
                    /\ OccursAt(t, o, p)
                    /\ \A q \in (p + 1)..Len(t) : ~OccursAt(t, o, q)
                    /\ Len(r) = Len(t) - Len(o) + Len(n)
                    /\ \A j \in 1..p : r[j] = t[j]
                    /\ \A j \in 1..Len(n) : r[p + j] = n[j]
                    /\ \A j \in (p + Len(o) + 1)..Len(t) : r[j - Len(o) + Len(n)] = t[j]

\* "1687/2526/1" with "1" -> "2" gave "1687/2526/2"
C3_Witness ==
    /\ pc = "done" /\ op = "replace_last_occurrence"
    /\ args.text = ExampleText /\ args.old = <<"1">> /\ args.new = <<"2">>
    /\ ret.val = <<"1", "6", "8", "7", "/", "2", "5", "2", "6", "/", "2">>

----------------------------------------------------------------------------
(* Claims on the replacement text of a multi-number mapping *)

MultiDone == pc = "done" /\ op = "multi_number_text"

\* the distinct listed numbers that stand in full
ListedIn(full, numbers) ==
    {numbers[j] : j \in {k \in 1..Len(numbers) : PyIn(numbers[k], full)}}

\* the rightmost occurrences of two different listed numbers share no character
DisjointOccurrences(full, numbers) ==
    \A m, n \in ListedIn(full, numbers) :
        m # n => \/ PyRfind(full, m) + Len(m) <= PyRfind(full, n)
                 \/ PyRfind(full, n) + Len(n) <= PyRfind(full, m)

\* full read from offset p on, each marked occurrence replaced by its increment
RECURSIVE SimultaneousFrom(_, _, _, _)
SimultaneousFrom(full, numbers, i, p) ==
    IF p >= Len(full) THEN <<>>
    ELSE LET here == {n \in ListedIn(full, numbers) : PyRfind(full, n) = p}
         IN  IF here = {} THEN <<full[p + 1]>> \o SimultaneousFrom(full, numbers, i, p + 1)
             ELSE LET n == CHOOSE n \in here : TRUE
                  IN  increment_serial(n, i, TRUE).val
                      \o SimultaneousFrom(full, numbers, i, p + Len(n))

\* C4: the replacement text of a multi-number mapping is full_match with the
\* rightmost occurrence of every listed number, located in the original
\* full_match, replaced by increment_serial(number, i), all at once: no
\* replacement shifts or corrupts another.
C4_SimultaneousReplacement ==
    (/\ MultiDone
     /\ \A j \in 1..Len(args.numbers) : IsDigitString(args.numbers[j])
     /\ DisjointOccurrences(args.full_match, args.numbers)) =>
        /\ ret.ok
        /\ ret.val = SimultaneousFrom(args.full_match, args.numbers, args.increment, 0)

----------------------------------------------------------------------------
(* Claims on the pattern locator *)

PatternsDone == pc = "done" /\ op = "find_serial_patterns"

\* C5: no standalone entry of find_serial_patterns has the digit string of a
\* slash entry of the same text, wherever the two matches are; a text that is a
\* slash followed by 3 or more digits yields exactly one entry, a slash one.
C5_PatternDedup ==
    PatternsDone =>
        LET found == ret.val
            t == args.text
        IN  /\ \A a, b \in 1..Len(found) :
                  (found[a].pattern_type = "slash_number"
                   /\ found[b].pattern_type = "standalone_number")
                      => found[a].number # found[b].number
            /\ (Len(t) >= SlashMinDigits + 1 /\ t[1] = "/" /\ \A j \in 2..Len(t) : t[j] \in Digits)
                  => /\ Len(found) = 1
                     /\ found[1].pattern_type = "slash_number"
                     /\ found[1].number = Tail(t)
                     /\ found[1].full_match = t

\* the standalone rule matched the digits of a slash entry at another place
C5_Witness ==
    /\ PatternsDone
    /\ \E a \in 1..Len(ret.val) :
          /\ ret.val[a].pattern_type = "slash_number"
          /\ \E q \in 0..Len(args.text) :
                /\ q # ret.val[a].start + 1
                /\ StandaloneMatchEnd(args.text, q) # -1
                /\ Slice(args.text, q, StandaloneMatchEnd(args.text, q)) = ret.val[a].number

----------------------------------------------------------------------------
(* Claims on replace_in_paragraph *)

ParaDone == pc = "done" /\ op = "replace_in_paragraph"

\* t with the occurrence of o at offset p replaced by n
ReplacedAt(t, o, n, p) == Slice(t, 0, p) \o n \o Slice(t, p + Len(o), Len(t))

\* C6: after replace_in_paragraph on a paragraph whose flattened text holds
\* old, the run texts laid end to end are the former flattened text with
\* exactly one occurrence of old replaced by new: nothing else is dropped,
\* doubled or moved and no second occurrence is rewritten.
C6_OneOccurrenceReplaced ==
    (ParaDone /\ PyIn(args.old_text, ParagraphText(before))) =>
        \E p \in 0..Len(ParagraphText(before)) :
            /\ OccursAt(ParagraphText(before), args.old_text, p)
            /\ ParagraphText(runs)
                 = ReplacedAt(ParagraphText(before), args.old_text, args.new_text, p)

\* the runs of rs that hold old entirely
Holders(rs, old) == {k \in 1..Len(rs) : \E p \in 0..Len(rs[k].text) : OccursAt(rs[k].text, old, p)}

\* C7: when some run holds old entirely, replace_in_paragraph assigns the text
\* of exactly one run, the first one that holds old (its text differs
\* afterwards whenever new differs from old); every other run, the number of
\* runs and their order are unchanged and the multi-run fallback is not taken.
C7_ContainedCaseFrame ==
    (ParaDone /\ Holders(before, args.old_text) # {}) =>
        LET k == Min(Holders(before, args.old_text))
        IN  /\ Len(runs) = Len(before)
            /\ \A j \in 1..Len(runs) : j # k => runs[j] = before[j]
            /\ runs[k].fmt = before[k].fmt
            /\ written = {k}
            /\ (args.new_text # args.old_text => runs[k].text # before[k].text)
            /\ ret.val = "same_run"

\* two runs held old, and the first one was rewritten
C7_Witness ==
    /\ ParaDone
    /\ Cardinality(Holders(before, args.old_text)) >= 2
    /\ args.new_text # args.old_text
    /\ written = {Min(Holders(before, args.old_text))}
    /\ runs # before

----------------------------------------------------------------------------
(* Claims on generate_certificate and create_combined_document *)

GenerateDone == pc = "done" /\ op = "generate_certificate"
CombinedDone == pc = "done" /\ op = "create_combined_document"

RunShape(run) == [fmt |-> run.fmt, br |-> run.br, drawing |-> run.drawing]

ParagraphShape(para) ==
    [kind |-> "p",
     runs |-> [j \in 1..Len(para.runs) |-> RunShape(para.runs[j])],
     pbb |-> para.pbb - para.marker]

BlockShape(block) ==
    IF block.kind = "p" THEN ParagraphShape(block)
    ELSE IF block.kind = "tbl"
    THEN [kind |-> "tbl",
          rows |-> [r \in 1..Len(block.rows) |->
                      [c \in 1..Len(block.rows[r]) |->
                          [q \in 1..Len(block.rows[r][c]) |->
                              ParagraphShape(block.rows[r][c][q])]]]]
    ELSE [kind |-> block.kind]

BlockStructure(body) ==
    LET IsCopied(x) == x.kind # "sectPr" /\ ~(x.kind = "p" /\ x.synthetic)
        blocks == SelectSeq(body, IsCopied)
    IN  [j \in 1..Len(blocks) |-> BlockShape(blocks[j])]

RECURSIVE Copies(_, _)
Copies(s, n) == IF n = 0 THEN <<>> ELSE s \o Copies(s, n - 1)

\* the page-break markers create_combined_document inserted that a body still holds
RECURSIVE InsertedMarkers(_)
InsertedMarkers(body) ==
    IF body = <<>> THEN 0
    ELSE (IF Head(body).kind = "p" THEN Head(body).marker ELSE 0) + InsertedMarkers(Tail(body))

\* C9: for every template and every N >= 1, the document create_combined_document
\* returns (after its blank-page cleanup) holds exactly N copies of the template's
\* sequence of paragraphs and tables and exactly N-1 inserted page-break markers.
C9_CombinedCount ==
    (CombinedDone /\ ret.ok) =>
        /\ BlockStructure(Document(ret.doc))
              = Copies(BlockStructure(Document(template_bytes)), args.count)
        /\ InsertedMarkers(Document(ret.doc)) = args.count - 1

----------------------------------------------------------------------------
(* Claims on the batch *)

CountUp(n) == [j \in 1..n |-> j - 1]

\* certificate k of the batch is generated, and in the ZIP format named, without an exception
CertificateOk(k) ==
    /\ GenerateInBatch([batch EXCEPT !.i = k], template_bytes, field_mappings).ok
    /\ batch.output_format = ZipFormat
          => increment_serial(field_mappings[1].pattern.number, k, TRUE).ok

\* C11: in both output formats a failure at certificate k aborts the batch: the
\* certificates are generated once each in ascending order and k is the last one
\* (none after it, none again), an error message is shown, and no download is
\* offered; a download is only offered when every certificate of the batch was
\* generated.
C11_BatchAborted ==
    /\ batch.generated = CountUp(Len(batch.generated))
    /\ batch.error <=> pc = "failed"
    /\ pc = "failed" =>
          /\ ~batch.success
          /\ batch.download = <<>>
          /\ batch.generated # <<>>
          /\ ~CertificateOk(Len(batch.generated) - 1)
          /\ \A k \in 0..(Len(batch.generated) - 2) : CertificateOk(k)
    /\ batch.download # <<>> =>
          /\ pc = "done"
          /\ batch.generated = CountUp(batch.num_certificates)
          /\ \A k \in 0..(batch.num_certificates - 1) : CertificateOk(k)

\* a ZIP batch failed at a certificate after the first: entries were written before it
C11_Witness ==
    /\ pc = "failed"
    /\ batch.output_format = ZipFormat
    /\ Len(batch.generated) >= 2
    /\ batch.zip_file # <<>>

----------------------------------------------------------------------------
(* Claims on the mappings of generate_certificate *)

\* the document as the loop over field_mappings finds it at its turn number k
FreshDocument == remove_highlighting(Document(template_bytes))
BeforeMapping(k) == ApplyMappings(FreshDocument, SubSeq(field_mappings, 1, k - 1), args.increment)

WithoutMapping(k) ==
    SubSeq(field_mappings, 1, k - 1) \o SubSeq(field_mappings, k + 1, Len(field_mappings))

IsIndexed(mapping) == mapping.type \in {"paragraph", "table_cell"}

\* the indexed location is not in the document
OutOfRange(body, mapping) ==
    IF mapping.type = "paragraph" THEN mapping.para_idx >= Len(DocParagraphs(body))
    ELSE \/ mapping.table_idx >= Len(DocTables(body))
         \/ LET rows == body[DocTables(body)[mapping.table_idx + 1]].rows
            IN  \/ mapping.row_idx >= Len(rows)
                \/ mapping.cell_idx >= Len(rows[mapping.row_idx + 1])

\* the text of the indexed location, which is in the document
IndexedText(body, mapping) ==
    IF mapping.type = "paragraph"
    THEN ParagraphText(body[DocParagraphs(body)[mapping.para_idx + 1]].runs)
    ELSE CellText(body[DocTables(body)[mapping.table_idx + 1]]
                      .rows[mapping.row_idx + 1][mapping.cell_idx + 1])

Inapplicable(body, mapping) ==
    \/ OutOfRange(body, mapping)
    \/ ~PyIn(mapping.pattern.full_match, IndexedText(body, mapping))

\* the turns of the loop at which an indexed mapping with a numeric serial finds
\* its location missing or without its text
SkippedTurns ==
    {k \in 1..Len(field_mappings) :
        /\ IsIndexed(field_mappings[k])
        /\ IsDigitString(field_mappings[k].pattern.number)
        /\ BeforeMapping(k).ok
        /\ Inapplicable(BeforeMapping(k).body, field_mappings[k])}

\* C12: an indexed mapping whose index is out of range, or whose paragraph or cell
\* does not hold full_match, raises nothing and changes nothing, and the rest of the
\* list is applied all the same: the call gives what it gives without that mapping.
C12_SkippedMappingIsNoOp ==
    GenerateDone =>
        \A k \in SkippedTurns :
            /\ ApplyMapping(BeforeMapping(k).body, field_mappings[k], args.increment)
                  = [ok |-> TRUE, body |-> BeforeMapping(k).body]
            /\ \E r \in {generate_certificate(template_bytes, WithoutMapping(k), args.increment)} :
                  ret.ok = r.ok /\ ret.doc = r.doc

\* an index past the end was skipped and a later mapping of the list changed the document
C12_Witness ==
    /\ GenerateDone /\ ret.ok
    /\ \E k \in SkippedTurns :
          /\ OutOfRange(BeforeMapping(k).body, field_mappings[k])
          /\ k < Len(field_mappings)
    /\ ret.doc # FreshDocument

----------------------------------------------------------------------------
(* Claims on the order of the pattern list *)

\* C13: the list find_serial_patterns returns is ordered by scan position: of any two
\* entries the one that starts earlier in the text comes first, whichever rule
\* (slash-prefixed or standalone) produced them.
C13_ScanOrder ==
    PatternsDone =>
        \A a, b \in 1..Len(ret.val) :
            ret.val[a].start < ret.val[b].start => a < b

----------------------------------------------------------------------------
(* Claims on the spanning case of replace_in_paragraph *)

\* old occurs in the flattened text of the paragraph the call was made on, in no single run
Spanning == ParaDone /\ PyIn(args.old_text, ParagraphText(before))
                     /\ Holders(before, args.old_text) = {}

\* offsets of the leftmost occurrence in the flattened text
OccurrenceStart == PyFind(ParagraphText(before), args.old_text)
OccurrenceEnd == OccurrenceStart + Len(args.old_text)

\* the run in which the occurrence starts
StartRun ==
    CHOOSE k \in 1..Len(before) :
        RunStart(before, k) <= OccurrenceStart /\ OccurrenceStart < RunEnd(before, k)

\* the runs after StartRun that lie entirely inside the occurrence, and the run in
\* which the occurrence ends inside the text
InsideRuns ==
    {j \in (StartRun + 1)..Len(before) :
        before[j].text # <<>> /\ RunEnd(before, j) <= OccurrenceEnd}
EndRun ==
    {j \in (StartRun + 1)..Len(before) :
        RunStart(before, j) < OccurrenceEnd /\ OccurrenceEnd < RunEnd(before, j)}

----------------------------------------------------------------------------
(* Claims on the calls that find nothing *)

Absent == ParaDone /\ ~PyIn(args.old_text, ParagraphText(before))

\* a cell of two paragraphs: the paragraph the call was made on, and one that is old
CellOfTwo == <<[runs |-> before], [runs |-> <<[text |-> args.old_text, fmt |-> 1]>>]>>

\* C15: when old does not occur in the flattened text of the paragraph (a paragraph
\* without runs included) replace_in_paragraph assigns no run, leaves the run list
\* as it was and raises nothing; replace_in_table_cell leaves such a paragraph of a
\* cell as it was while it rewrites the paragraph of the cell that holds old.
C15_AbsentIsNoOp ==
    Absent =>
        /\ ret.ok /\ ret.val = "none"
        /\ runs = before
        /\ written = {}
        /\ \E cell \in {replace_in_table_cell(CellOfTwo, args.old_text, args.new_text)} :
              /\ Len(cell) = 2
              /\ cell[1] = CellOfTwo[1]
              /\ ParagraphText(cell[2].runs) = args.new_text

\* old is absent from a paragraph of several runs that holds the first character of old
C15_Witness ==
    /\ Absent
    /\ Len(before) >= 2
    /\ PyIn(<<args.old_text[1]>>, ParagraphText(before))
    /\ args.new_text # args.old_text

\* old occurs in the flattened text of the paragraph the call was made on
Found == ParaDone /\ PyIn(args.old_text, ParagraphText(before))

\* C16: the substitution is single-shot: after a replace_in_paragraph that found
\* old the flattened text does not hold old any more, and a second call with the
\* same old and new changes nothing.
C16_SingleShot ==
    Found =>
        /\ ~PyIn(args.old_text, ParagraphText(runs))
        /\ replace_in_paragraph(runs, args.old_text, args.new_text) = NoChange(runs)

----------------------------------------------------------------------------
(* Claims on the document generate_certificate returns *)

AnyHighlight(para) == \E j \in 1..Len(para.runs) : para.runs[j].highlight

\* some run of the block (a body paragraph, or a paragraph of a table cell) is highlighted
BlockHighlighted(block) ==
    IF block.kind = "p" THEN AnyHighlight(block)
    ELSE IF block.kind = "tbl"
    THEN \E r \in 1..Len(block.rows) : \E c \in 1..Len(block.rows[r]) :
            \E q \in 1..Len(block.rows[r][c]) : AnyHighlight(block.rows[r][c][q])
    ELSE FALSE

----------------------------------------------------------------------------
(* Claims on where a mapping is applied *)

\* the replacement text of a single-number mapping for the certificate of the call
NewText(mapping) ==
    replace_last_occurrence(mapping.pattern.full_match, mapping.pattern.number,
        increment_serial(mapping.pattern.number, args.increment, TRUE).val)

\* the turns of the loop taken by an indexed mapping with a numeric serial
IndexedTurns ==
    {k \in 1..Len(field_mappings) :
        /\ IsIndexed(field_mappings[k])
        /\ IsDigitString(field_mappings[k].pattern.number)
        /\ BeforeMapping(k).ok}

AfterMapping(k) == ApplyMapping(BeforeMapping(k).body, field_mappings[k], args.increment)

\* C18 as stated: an indexed mapping whose location does not hold full_match is
\* applied as a manual mapping is, by search and replace over the whole document.
C18_FallbackSearch ==
    GenerateDone =>
        \A k \in SkippedTurns :
            AfterMapping(k).body
                = SearchAndReplace(BeforeMapping(k).body, field_mappings[k].pattern.full_match,
                                   NewText(field_mappings[k]))

\* position in body of the block an indexed mapping names, 0 when there is none
IndexedBlock(body, mapping) ==
    IF mapping.type = "paragraph"
    THEN IF mapping.para_idx < Len(DocParagraphs(body))
         THEN DocParagraphs(body)[mapping.para_idx + 1] ELSE 0
    ELSE IF mapping.table_idx < Len(DocTables(body))
         THEN DocTables(body)[mapping.table_idx + 1] ELSE 0

\* a table differs from another in no cell but the one at (row_idx, cell_idx)
SameButCell(tbl, other, row_idx, cell_idx) ==
    /\ Len(tbl.rows) = Len(other.rows)
    /\ \A r \in 1..Len(tbl.rows) :
          /\ Len(tbl.rows[r]) = Len(other.rows[r])
          /\ \A c \in 1..Len(tbl.rows[r]) :
                (r # row_idx + 1 \/ c # cell_idx + 1) => tbl.rows[r][c] = other.rows[r][c]

\* C18 amended: an indexed mapping is applied at its own paragraph or cell and
\* nowhere else: every other block and every other cell is left as it was, also
\* when the named location does not hold full_match and another one does; no
\* search over the document is made for it.
C18_IndexedOnlyAtIndex ==
    GenerateDone =>
        \A k \in IndexedTurns :
            /\ AfterMapping(k).ok
            /\ Len(AfterMapping(k).body) = Len(BeforeMapping(k).body)
            /\ \A b \in 1..Len(BeforeMapping(k).body) :
                  IF b # IndexedBlock(BeforeMapping(k).body, field_mappings[k])
                  THEN AfterMapping(k).body[b] = BeforeMapping(k).body[b]
                  ELSE field_mappings[k].type = "table_cell" =>
                          SameButCell(AfterMapping(k).body[b], BeforeMapping(k).body[b],
                                      field_mappings[k].row_idx, field_mappings[k].cell_idx)
            /\ k \in SkippedTurns => AfterMapping(k).body = BeforeMapping(k).body

\* the named location did not hold full_match, another paragraph or cell did, and
\* the returned document still holds it there
C18_Witness ==
    /\ GenerateDone /\ ret.ok
    /\ args.increment >= 1
    /\ \E k \in SkippedTurns :
          /\ SearchAndReplace(BeforeMapping(k).body, field_mappings[k].pattern.full_match,
                              NewText(field_mappings[k])) # BeforeMapping(k).body
          /\ k = Len(field_mappings)
          /\ ret.doc = BeforeMapping(k).body

\* the turns of the loop taken by a manual mapping whose numbers are digit strings
ManualTurns ==
    {k \in 1..Len(field_mappings) :
        /\ field_mappings[k].type = "manual"
        /\ IsDigitString(field_mappings[k].pattern.number)
        /\ \A n \in 1..Len(field_mappings[k].pattern.numbers) :
              IsDigitString(field_mappings[k].pattern.numbers[n])
        /\ BeforeMapping(k).ok}

\* the replacement text of a manual mapping for the certificate of the call
ManualNewText(mapping) ==
    IF mapping.pattern.has_numbers
    THEN multi_number_text(mapping.pattern.full_match, mapping.pattern.numbers,
                           args.increment).val
    ELSE NewText(mapping)

\* u is t with its occurrence of old replaced by new, for a text t that holds old once
SubstitutedOnce(t, u, old, new) ==
    Cardinality({p \in 0..Len(t) : OccursAt(t, old, p)}) = 1
        => u = ReplacedAt(t, old, new, PyFind(t, old))

\* a block after a manual mapping: a paragraph or cell that held old has it
\* substituted, any other is as it was
BlockSearched(block, after, old, new) ==
    IF block.kind = "p"
    THEN /\ after.kind = "p"
         /\ IF PyIn(old, ParagraphText(block.runs))
            THEN SubstitutedOnce(ParagraphText(block.runs), ParagraphText(after.runs), old, new)
            ELSE after = block
    ELSE IF block.kind = "tbl"
    THEN /\ after.kind = "tbl"
         /\ Len(after.rows) = Len(block.rows)
         /\ \A r \in 1..Len(block.rows) :
               /\ Len(after.rows[r]) = Len(block.rows[r])
               /\ \A c \in 1..Len(block.rows[r]) :
                     IF PyIn(old, CellText(block.rows[r][c]))
                     THEN SubstitutedOnce(CellText(block.rows[r][c]),
                                          CellText(after.rows[r][c]), old, new)
                     ELSE after.rows[r][c] = block.rows[r][c]
    ELSE after = block

\* C19: a manual mapping, with one number or several, is applied at every location:
\* each body paragraph and each table cell that holds full_match has it replaced by
\* the text of the certificate, every other location is as it was, and when no
\* location holds it the document is unchanged; no exception is raised.
C19_ManualEverywhere ==
    GenerateDone =>
        \A k \in ManualTurns :
            /\ AfterMapping(k).ok
            /\ Len(AfterMapping(k).body) = Len(BeforeMapping(k).body)
            /\ \A b \in 1..Len(BeforeMapping(k).body) :
                  BlockSearched(BeforeMapping(k).body[b], AfterMapping(k).body[b],
                                field_mappings[k].pattern.full_match,
                                ManualNewText(field_mappings[k]))

\* a body paragraph and a table cell both held full_match and a third location did
\* not; the certificate is not the first, so the text written differs
C19_Witness ==
    /\ GenerateDone /\ ret.ok
    /\ args.increment >= 1
    /\ \E k \in ManualTurns :
          /\ \E b \in 1..Len(BeforeMapping(k).body) :
                /\ BeforeMapping(k).body[b].kind = "p"
                /\ PyIn(field_mappings[k].pattern.full_match,
                        ParagraphText(BeforeMapping(k).body[b].runs))
                /\ AfterMapping(k).body[b] # BeforeMapping(k).body[b]
          /\ \E b \in 1..Len(BeforeMapping(k).body) :
                /\ BeforeMapping(k).body[b].kind = "tbl"
                /\ AfterMapping(k).body[b] # BeforeMapping(k).body[b]

----------------------------------------------------------------------------
(* Claims on the combined document before the cleanup *)

IsSynthetic(block) == block.kind = "p" /\ block.synthetic

\* positions in body of the blocks copied from certificates
CopiedPositions(body) ==
    LET IsCopied(b) == body[b].kind # "sectPr" /\ ~IsSynthetic(body[b])
    IN  SelectSeq([b \in 1..Len(body) |-> b], IsCopied)

\* a block without the page break create_combined_document gave it
WithoutMarker(block) ==
    IF block.kind = "p" THEN [block EXCEPT !.pbb = @ - block.marker, !.marker = 0] ELSE block

\* the blocks of each certificate of a batch of count, as generate_certificate gives them
CertificateBlocks(count) ==
    [i \in 0..(count - 1) |->
        ElementsToCopy(generate_certificate(template_bytes, field_mappings, i).doc)]

\* the block at position b of body is the first block of a certificate after the
\* base: it carries one page break of its own when it is a paragraph, and follows
\* one synthetic empty paragraph with a page break when it is a table
MarkedFirstBlock(body, b) ==
    IF body[b].kind = "p"
    THEN body[b].marker = 1 /\ ~IsSynthetic(body[b - 1])
    ELSE /\ body[b - 1] = PageBreakParagraph
         /\ ~IsSynthetic(body[b - 2])

\* any other copied block carries no page break of the assembly and follows none
UnmarkedBlock(body, b) ==
    /\ body[b].kind = "p" => body[b].marker = 0
    /\ b > 1 => ~IsSynthetic(body[b - 1])

\* body holds the certificates certs in ascending order, n blocks each, the page
\* breaks at the first block of each certificate after the base and nowhere else
InOrderWithBreaks(body, certs, n, count) ==
    /\ Len(CopiedPositions(body)) = n * count
    /\ \A m \in 1..(n * count) :
          \E b \in {CopiedPositions(body)[m]} :
              /\ WithoutMarker(body[b]) = certs[(m - 1) \div n][((m - 1) % n) + 1]
              /\ IF (m - 1) % n = 0 /\ m > 1
                 THEN MarkedFirstBlock(body, b)
                 ELSE UnmarkedBlock(body, b)
    /\ body # <<>> => ~IsSynthetic(body[Len(body)])

\* C20: before the cleanup the combined document holds the certificates in ascending
\* order of index, certificate 0 as the base and the blocks of each in their order,
\* and the first block of every certificate after the base is preceded by a page
\* break: its own page-break-before when it is a paragraph, one synthetic empty
\* paragraph with page-break-before just before it when it is a table.
C20_OrderAndBreaks ==
    (CombinedDone /\ ret.ok) =>
        \E certs \in {CertificateBlocks(args.count)} :
            /\ SubSeq(ret.assembled, 1, Len(certs[0]) + 1) = certs[0] \o <<SectPr>>
            /\ InOrderWithBreaks(ret.assembled, certs, Len(certs[0]), args.count)

\* several certificates that differ from one another, the first block a table
C20_Witness ==
    /\ CombinedDone /\ ret.ok
    /\ args.count >= 2
    /\ Document(template_bytes)[1].kind = "tbl"
    /\ Len(Document(template_bytes)) >= 3
    /\ CertificateBlocks(args.count)[0] # CertificateBlocks(args.count)[1]

----------------------------------------------------------------------------
(* Claims on the blank-page cleanup *)

\* a paragraph without text other than white space and without a drawing
IsBlankParagraph(block) ==
    /\ block.kind = "p"
    /\ IsBlankText(ParaItertext(block))
    /\ \A j \in 1..Len(block.runs) : ~block.runs[j].drawing

\* the blocks of a body that are not blank paragraphs, in order
NonBlankBlocks(body) ==
    LET NotBlank(x) == ~IsBlankParagraph(x)
    IN  SelectSeq(body, NotBlank)

\* C21: remove_blank_pages removes blank paragraphs only: the tables and the
\* paragraphs with text or with an image that the assembled document holds are all
\* in the returned document, in the same order, whatever page breaks they or their
\* neighbours carry.
C21_OnlyBlankRemoved ==
    (CombinedDone /\ ret.ok) =>
        NonBlankBlocks(Document(ret.doc)) = NonBlankBlocks(ret.assembled)

----------------------------------------------------------------------------
(* Claims on repeated numbers and on the independence of mappings *)

\* numbers with every repetition of an entry removed, first occurrences kept
RECURSIVE WithoutRepetition(_)
WithoutRepetition(numbers) ==
    IF numbers = <<>> THEN <<>>
    ELSE LET n == numbers[Len(numbers)]
             front == SubSeq(numbers, 1, Len(numbers) - 1)
         IN  IF \E j \in 1..Len(front) : front[j] = n
             THEN WithoutRepetition(front)
             ELSE Append(WithoutRepetition(front), n)

\* C27: a number listed more than once in a multi-number mapping has no effect: the
\* replacement text equals the one for the list without the repetition, for every
\* certificate index, also when the incremented number gains a digit.
C27_RepetitionHasNoEffect ==
    MultiDone =>
        ret = multi_number_text(args.full_match, WithoutRepetition(args.numbers),
                                args.increment)

\* the mappings of the run are manual ones with pairwise distinct full_match texts
DistinctManual ==
    /\ \A k \in 1..Len(field_mappings) : field_mappings[k].type = "manual"
    /\ \A j, k \in 1..Len(field_mappings) :
          j # k => field_mappings[j].pattern.full_match # field_mappings[k].pattern.full_match

\* the lists holding the mappings of the run in any order
Reorderings ==
    {[k \in 1..Len(field_mappings) |-> field_mappings[p[k]]] :
        p \in Permutations(1..Len(field_mappings))}

\* C28: the mappings of one run are independent: for manual mappings with pairwise
\* distinct full_match texts the certificate produced by generate_certificate is
\* the same for every order of the mappings in the list, so what one mapping wrote
\* is not rewritten (or left out) because of another mapping's turn.
C28_OrderIndependent ==
    (GenerateDone /\ DistinctManual) =>
        \A ms \in Reorderings :
            generate_certificate(template_bytes, ms, args.increment).doc = ret.doc

----------------------------------------------------------------------------
(* Claim on the first certificate *)

\* every number of every mapping of the run is a digit string
DigitMappings ==
    \A k \in 1..Len(field_mappings) :
        /\ IsDigitString(field_mappings[k].pattern.number)
        /\ \A n \in 1..Len(field_mappings[k].pattern.numbers) :
              IsDigitString(field_mappings[k].pattern.numbers[n])

\* the text of a block: of the paragraph, or of each paragraph of each cell
BlockTexts(block) ==
    IF block.kind = "p" THEN ParagraphText(block.runs)
    ELSE IF block.kind = "tbl"
    THEN [r \in 1..Len(block.rows) |->
            [c \in 1..Len(block.rows[r]) |->
                [q \in 1..Len(block.rows[r][c]) |-> ParagraphText(block.rows[r][c][q].runs)]]]
    ELSE <<>>

BodyTexts(body) == [b \in 1..Len(body) |-> BlockTexts(body[b])]

\* C29: certificate index 0 reproduces the template text: increment_serial(number, 0)
\* is number for every non-empty string of the digits 0 to 9, so for mappings whose
\* numbers are such strings the replacement text of index 0 is full_match, and every
\* paragraph and every table cell of generate_certificate(template, mappings, 0) has
\* the template's text.
C29_IndexZeroIsTemplate ==
    (GenerateDone /\ args.increment = 0 /\ DigitMappings) =>
        /\ \A s \in SerialInputs :
              IsDigitString(s) => increment_serial(s, 0, TRUE) = [ok |-> TRUE, val |-> s]
        /\ \A k \in 1..Len(field_mappings) :
              ManualNewText(field_mappings[k]) = field_mappings[k].pattern.full_match
        /\ ret.ok
        /\ BodyTexts(ret.doc) = BodyTexts(Document(template_bytes))

\* index 0 was generated with a mapping whose text spans two runs of a template
\* paragraph: the runs were rewritten, the text is the template's
C29_Witness ==
    /\ GenerateDone /\ args.increment = 0 /\ DigitMappings
    /\ field_mappings # <<>>
    /\ ret.ok
    /\ ret.doc # Document(template_bytes)
    /\ \E b \in 1..Len(Document(template_bytes)) :
          /\ Document(template_bytes)[b] = SplitParagraph
          /\ Len(ret.doc[b].runs[2].text) = 0

----------------------------------------------------------------------------
(* Serene chatbot: configuration (src/serene_chatbot/backend/config.py) *)

SESSION_TIMEOUT_HOURS == 24
MAX_CONVERSATION_HISTORY == 20

\* bounds of the chatbot model: the clock stops at MaxClock hours, a driver of
\* add_message makes up to MaxAdds calls past the trimming threshold, a chat
\* request is taken while the stored sessions hold fewer than MaxHistory messages
MaxClock == 26
MaxAdds == 3
MaxHistory == 3

----------------------------------------------------------------------------
(* str.lower and the keyword tests *)

UpperLetters ==
    <<"A", "B", "C", "D", "E", "F", "G", "H", "I", "J", "K", "L", "M", "N", "O", "P",
      "Q", "R", "S", "T", "U", "V", "W", "X", "Y", "Z">>
LowerLetters ==
    <<"a", "b", "c", "d", "e", "f", "g", "h", "i", "j", "k", "l", "m", "n", "o", "p",
      "q", "r", "s", "t", "u", "v", "w", "x", "y", "z">>

PyLowerChar(c) ==
    IF \E i \in 1..Len(UpperLetters) : UpperLetters[i] = c
    THEN LowerLetters[CHOOSE i \in 1..Len(UpperLetters) : UpperLetters[i] = c]
    ELSE c

\* message.lower()
PyLower(s) == [i \in 1..Len(s) |-> PyLowerChar(s[i])]

\* any(keyword in message_lower for keyword in keywords)
AnyIn(keywords, message_lower) ==
    \E i \in 1..Len(keywords) : PyIn(keywords[i], message_lower)

greetings ==
    <<<<"h", "i">>, <<"h", "e", "l", "l", "o">>, <<"h", "e", "y">>,
      <<"g", "o", "o", "d", " ", "m", "o", "r", "n", "i", "n", "g">>,
      <<"g", "o", "o", "d", " ", "a", "f", "t", "e", "r", "n", "o", "o", "n">>,
      <<"g", "o", "o", "d", " ", "e", "v", "e", "n", "i", "n", "g">>,
      <<"n", "a", "m", "a", "s", "t", "e">>>>
quote_keywords ==
    <<<<"q", "u", "o", "t", "e">>, <<"e", "s", "t", "i", "m", "a", "t", "e">>,
      <<"p", "r", "i", "c", "e">>, <<"c", "o", "s", "t">>,
      <<"b", "u", "d", "g", "e", "t">>, <<"h", "o", "w", " ", "m", "u", "c", "h">>,
      <<"p", "r", "i", "c", "i", "n", "g">>>>
service_keywords ==
    <<<<"s", "e", "r", "v", "i", "c", "e">>, <<"p", "a", "c", "k", "a", "g", "e">>,
      <<"o", "f", "f", "e", "r">>, <<"b", "a", "s", "i", "c">>,
      <<"p", "r", "e", "m", "i", "u", "m">>, <<"l", "u", "x", "u", "r", "y">>,
      <<"w", "h", "a", "t", " ", "d", "o", " ", "y", "o", "u">>>>
contact_keywords ==
    <<<<"c", "o", "n", "t", "a", "c", "t">>, <<"c", "a", "l", "l">>,
      <<"p", "h", "o", "n", "e">>, <<"a", "d", "d", "r", "e", "s", "s">>,
      <<"l", "o", "c", "a", "t", "i", "o", "n">>, <<"v", "i", "s", "i", "t">>,
      <<"m", "e", "e", "t">>>>
register_keywords ==
    <<<<"r", "e", "g", "i", "s", "t", "e", "r">>,
      <<"s", "i", "g", "n", " ", "u", "p">>,
      <<"i", "n", "t", "e", "r", "e", "s", "t", "e", "d">>, <<"b", "o", "o", "k">>,
      <<"a", "p", "p", "o", "i", "n", "t", "m", "e", "n", "t">>,
      <<"c", "o", "n", "s", "u", "l", "t", "a", "t", "i", "o", "n">>>>

\* GeminiService.analyze_intent
analyze_intent(message) ==
    LET message_lower == PyLower(message)
    IN  [is_greeting |-> AnyIn(greetings, message_lower),
         wants_quote |-> AnyIn(quote_keywords, message_lower),
         asks_services |-> AnyIn(service_keywords, message_lower),
         asks_contact |-> AnyIn(contact_keywords, message_lower),
         wants_register |-> AnyIn(register_keywords, message_lower)]

\* keywords_map of get_faq_response, in the order of the dictionary
keywords_map ==
    <<[faq_key |-> "cost_complete_interior",
       keywords |->
           <<<<"c", "o", "m", "p", "l", "e", "t", "e", " ", "h", "o", "m", "e">>,
             <<"c", "o", "m", "p", "l", "e", "t", "e", " ", "i", "n", "t", "e", "r", "i", "o", "r">>,
             <<"f", "u", "l", "l", " ", "h", "o", "m", "e", " ", "c", "o", "s", "t">>,
             <<"t", "o", "t", "a", "l", " ", "c", "o", "s", "t">>,
             <<"h", "o", "w", " ", "m", "u", "c", "h">>>>],
      [faq_key |-> "choose_designer",
       keywords |->
           <<
             <<"c", "h", "o", "o", "s", "e", " ", "d", "e", "s", "i", "g", "n", "e", "r">>,
             <<"r", "i", "g", "h", "t", " ", "d", "e", "s", "i", "g", "n", "e", "r">>,
             <<"s", "e", "l", "e", "c", "t", " ", "d", "e", "s", "i", "g", "n", "e", "r">>,
             <<"f", "i", "n", "d", " ", "d", "e", "s", "i", "g", "n", "e", "r">>>>],
      [faq_key |-> "cost_1bhk",
       keywords |->
           <<<<"1", "b", "h", "k">>, <<"1", " ", "b", "h", "k">>,
             <<"o", "n", "e", " ", "b", "h", "k">>>>],
      [faq_key |-> "cost_2bhk_3bhk",
       keywords |->
           <<<<"2", "b", "h", "k">>, <<"3", "b", "h", "k">>,
             <<"2", " ", "b", "h", "k">>, <<"3", " ", "b", "h", "k">>,
             <<"t", "w", "o", " ", "b", "h", "k">>,
             <<"t", "h", "r", "e", "e", " ", "b", "h", "k">>>>],
      [faq_key |-> "factors_cost",
       keywords |->
           <<<<"f", "a", "c", "t", "o", "r", "s">>,
             <<"a", "f", "f", "e", "c", "t", " ", "c", "o", "s", "t">>,
             <<"p", "r", "i", "c", "e", " ", "f", "a", "c", "t", "o", "r", "s">>,
             <<"w", "h", "a", "t", " ", "a", "f", "f", "e", "c", "t", "s">>>>]>>

\* the answer of an entry of FAQS, a text of the knowledge base
FaqAnswer(faq_key) == <<"FAQS", faq_key, "answer">>

\* get_faq_response: the answer of the first entry with a keyword in the message
get_faq_response(message) ==
    LET message_lower == PyLower(message)
        hits == {k \in 1..Len(keywords_map) : AnyIn(keywords_map[k].keywords, message_lower)}
    IN  IF hits = {} THEN None
        ELSE FaqAnswer(keywords_map[CHOOSE k \in hits : \A j \in hits : k <= j].faq_key)

----------------------------------------------------------------------------
(* ChatSession and ChatService (services/chat_service.py) *)

\* ChatSession.__init__
ChatSession(session_id, t) ==
    [session_id |-> session_id, history |-> <<>>, created_at |-> t, last_activity |-> t,
     lead_collected |-> FALSE, context |-> <<>>]

\* an entry of the history
HistoryEntry(role, content, t) == [role |-> role, content |-> content, timestamp |-> t]

\* s[-n:] of Python for n >= 0: the last n elements, and the whole of s for n = 0
PyLastN(s, n) ==
    IF n = 0 \/ Len(s) <= n THEN s ELSE SubSeq(s, Len(s) - n + 1, Len(s))

\* a variant that trims by keeping the oldest messages
add_message_keep_oldest(session, role, content, t) ==
    LET history == Append(session.history, HistoryEntry(role, content, t))
    IN  [session EXCEPT
            !.history = IF Len(history) > MAX_CONVERSATION_HISTORY * 2
                        THEN SubSeq(history, 1, MAX_CONVERSATION_HISTORY * 2)
                        ELSE history,
            !.last_activity = t]

\* ChatSession.add_message at time t
add_message(session, role, content, t) ==
    LET history == Append(session.history, HistoryEntry(role, content, t))
    IN  [session EXCEPT
            !.history = IF Len(history) > MAX_CONVERSATION_HISTORY * 2
                        THEN PyLastN(history, MAX_CONVERSATION_HISTORY * 2)
                        ELSE history,
            !.last_activity = t]

\* ChatSession.is_expired at time t
is_expired(session, t) == t > session.last_activity + SESSION_TIMEOUT_HOURS

\* a variant that removes nothing
cleanup_nothing(table, t) == table

\* ChatService._cleanup_expired_sessions: the table without its expired sessions
cleanup_expired_sessions(table, t) ==
    [sid \in {k \in DOMAIN table : ~is_expired(table[k], t)} |-> table[sid]]

\* bool(session_id)
Truthy(session_id) == session_id # None /\ session_id # ""

\* self.sessions[new_id] = session
Store(table, new_id, session) ==
    [sid \in DOMAIN table \cup {new_id} |-> IF sid = new_id THEN session ELSE table[sid]]

\* ChatService.get_or_create_session at time t; uuid is the value of uuid.uuid4().
\* The result names the session returned and gives the table after the call.
get_or_create_session(table, session_id, t, uuid) ==
    LET cleaned == cleanup_expired_sessions(table, t)
    IN  IF /\ Truthy(session_id)
           /\ session_id \in DOMAIN cleaned
           /\ ~is_expired(cleaned[session_id], t)
        THEN [sessions |-> cleaned, session_id |-> session_id, created |-> FALSE]
        ELSE LET new_id == IF Truthy(session_id) THEN session_id ELSE uuid
             IN  [sessions |-> Store(cleaned, new_id, ChatSession(new_id, t)),
                  session_id |-> new_id, created |-> TRUE]

GREETING_MESSAGE == <<"GREETING_MESSAGE">>
QuoteResponse == <<"quote response">>
ServicesResponse == <<"services response">>
ContactResponse == <<"contact response">>
Hello == <<"H", "e", "l", "l", "o">>

\* what GeminiService.generate_response can return: a reply, here one that names an
\* estimate or a quote, and the apology returned when the API call fails
AiReplies ==
    {[text |-> <<"reply naming a quote">>, names_quote |-> TRUE],
     [text |-> <<"apology">>, names_quote |-> FALSE]}

\* a handler of process_message: the user message and the response are added to
\* the session, the response is returned
Handled(table, sid, user_content, response, quick_replies, action, t) ==
    [sessions |->
        [table EXCEPT ![sid] =
            add_message(add_message(@, "user", user_content, t), "model", response, t)],
     user |-> user_content,
     result |-> [response |-> response, quick_replies |-> quick_replies,
                 action |-> action, session_id |-> sid]]

_handle_greeting(table, sid, t) ==
    Handled(table, sid, Hello, GREETING_MESSAGE, "QUICK_REPLIES_INITIAL", "none", t)

_handle_quote_request(table, sid, message, t) ==
    Handled(table, sid, message, QuoteResponse, "proceed or more", "collect_lead", t)

_handle_services_query(table, sid, message, t) ==
    Handled(table, sid, message, ServicesResponse, "QUICK_REPLIES_SERVICES", "none", t)

_handle_contact_query(table, sid, message, t) ==
    Handled(table, sid, message, ContactResponse, "consultation or directions", "none", t)

_generate_ai_response(table, sid, message, t, reply) ==
    Handled(table, sid, message, reply.text,
            IF reply.names_quote THEN "estimate or questions" ELSE "QUICK_REPLIES_AFTER_INFO",
            "none", t)

\* a variant that looks at the intents before the FAQ
Dispatch_intents_first(table, sid, message, t, reply) ==
    LET intent == analyze_intent(message)
        faq_response == get_faq_response(message)
    IN  IF table[sid].history = <<>> /\ intent.is_greeting
        THEN _handle_greeting(table, sid, t)
        ELSE IF intent.wants_quote \/ intent.wants_register
        THEN _handle_quote_request(table, sid, message, t)
        ELSE IF faq_response # None
        THEN Handled(table, sid, message, faq_response, "QUICK_REPLIES_AFTER_INFO", "none", t)
        ELSE IF intent.asks_services
        THEN _handle_services_query(table, sid, message, t)
        ELSE IF intent.asks_contact
        THEN _handle_contact_query(table, sid, message, t)
        ELSE _generate_ai_response(table, sid, message, t, reply)

\* process_message once the session is known: the handler is picked
Dispatch(table, sid, message, t, reply) ==
    LET intent == analyze_intent(message)
        faq_response == get_faq_response(message)
    IN  IF table[sid].history = <<>> /\ intent.is_greeting
        THEN _handle_greeting(table, sid, t)
        ELSE IF faq_response # None
        THEN Handled(table, sid, message, faq_response, "QUICK_REPLIES_AFTER_INFO", "none", t)
        ELSE IF intent.wants_quote \/ intent.wants_register
        THEN _handle_quote_request(table, sid, message, t)
        ELSE IF intent.asks_services
        THEN _handle_services_query(table, sid, message, t)
        ELSE IF intent.asks_contact
        THEN _handle_contact_query(table, sid, message, t)
        ELSE _generate_ai_response(table, sid, message, t, reply)

\* ChatService.process_message at time t, for a request without context
process_message(table, message, session_id, t, uuid, reply) ==
    LET got == get_or_create_session(table, session_id, t, uuid)
    IN  Dispatch(got.sessions, got.session_id, message, t, reply)

----------------------------------------------------------------------------
(* SpecSession: add_message on one session.  SpecChat: the requests of the API *)

\* the session ids a client sends, and the values uuid.uuid4() gives
SessionIds == {"s1"}
Uuids == {"u1"}
SessionArgs == {None, ""} \cup SessionIds \cup Uuids

Roles == {"user", "model"}
Contents == {<<"a">>, <<"b">>}

ChatMessages ==
    {<<"H", "i">>,
     <<"w", "h", "i", "c", "h", " ", "2", "b", "h", "k", " ", "c", "o", "s", "t">>,
     <<"H", "o", "w", " ", "m", "u", "c", "h">>,
     <<"b", "o", "o", "k", " ", "a", " ", "v", "i", "s", "i", "t">>,
     <<"l", "u", "x", "u", "r", "y", " ", "v", "i", "s", "i", "t">>,
     <<"c", "a", "l", "l">>,
     <<"o", "k">>}

\* the hours the clock advances by between two requests: half the timeout, so that
\* a session is met at the age of the timeout exactly, and one hour more
Advances == {SESSION_TIMEOUT_HOURS \div 2, SESSION_TIMEOUT_HOURS \div 2 + 1}

\* a session that add_message was called on n times, and the messages given
RECURSIVE SessionAfter(_)
SessionAfter(n) ==
    IF n = 0 THEN ChatSession("s1", 0)
    ELSE add_message(SessionAfter(n - 1), IF n % 2 = 1 THEN "user" ELSE "model", <<"a">>, 0)

MessagesGiven(n) ==
    [i \in 1..n |-> HistoryEntry(IF i % 2 = 1 THEN "user" ELSE "model", <<"a">>, 0)]

\* everything but the state of the chatbot backend is at rest
GeneratorIdle ==
    /\ runs = NoRuns /\ before = NoRuns /\ written = {}
    /\ template_bytes = <<>> /\ field_mappings = <<>> /\ seen = <<>>
    /\ batch = <<>>

InitSession ==
    /\ pc = "idle"
    /\ op = "none"
    /\ args = <<>>
    /\ ret = NoRet
    /\ GeneratorIdle
    /\ now = 0
    /\ \E n \in (2 * MAX_CONVERSATION_HISTORY - MaxAdds)..(2 * MAX_CONVERSATION_HISTORY) :
          /\ sessions = [sid \in {"s1"} |-> SessionAfter(n)]
          /\ added = [sid \in {"s1"} |-> MessagesGiven(n)]
    /\ leads = <<>>
    /\ WatermarkAtStart /\ EditorAtStart

AddMessage(role, content) ==
    /\ Len(added["s1"]) < 2 * MAX_CONVERSATION_HISTORY + MaxAdds
    /\ sessions' = [sessions EXCEPT !["s1"] = add_message(@, role, content, now)]
    /\ added' = [added EXCEPT !["s1"] = Append(@, HistoryEntry(role, content, now))]
    /\ pc' = "done"
    /\ op' = "add_message"
    /\ args' = [role |-> role, content |-> content]
    /\ UNCHANGED <<ret, now, leads, generatorVars, watermarkVars, editorVars>>

NextSession == \E role \in Roles, content \in Contents : AddMessage(role, content)

SpecSession == InitSession /\ [][NextSession]_vars

InitChat ==
    /\ pc = "idle"
    /\ op = "none"
    /\ args = <<>>
    /\ ret = NoRet
    /\ GeneratorIdle
    /\ ServicesAtStart /\ WatermarkAtStart /\ EditorAtStart

\* time passes between two requests
Tick(d) ==
    /\ now + d <= MaxClock
    /\ now' = now + d
    /\ UNCHANGED <<pc, op, args, ret, sessions, added, leads, generatorVars, watermarkVars,
                   editorVars>>

\* the messages given to the sessions of the table after a request: a session made
\* by the request starts with none, a removed one is forgotten
AddedAfter(table, sid, created, extra) ==
    [k \in DOMAIN table |->
        IF k = sid THEN (IF created THEN <<>> ELSE added[k]) \o extra ELSE added[k]]

\* the values uuid.uuid4() can give to a request: it is called only for a request
\* without a session id, and gives an id no stored session has
FreshUuids(session_id) ==
    IF Truthy(session_id) THEN {None} ELSE Uuids \ DOMAIN sessions

\* GET /greeting: get_initial_greeting calls get_or_create_session
GetOrCreateSession(session_id) ==
    /\ \E uuid \in FreshUuids(session_id) :
       \E got \in {get_or_create_session(sessions, session_id, now, uuid)} :
          /\ sessions' = got.sessions
          /\ added' = AddedAfter(got.sessions, got.session_id, got.created, <<>>)
          /\ ret' = [session |-> got.sessions[got.session_id]]
    /\ pc' = "done"
    /\ op' = "get_or_create_session"
    /\ args' = [session_id |-> session_id]
    /\ UNCHANGED <<now, leads, generatorVars, watermarkVars, editorVars>>

\* the number of messages the sessions of the table hold
RECURSIVE TotalOf(_, _)
TotalOf(table, ids) ==
    IF ids = {} THEN 0
    ELSE LET sid == CHOOSE k \in ids : TRUE
         IN  Len(table[sid].history) + TotalOf(table, ids \ {sid})

TotalMessages(table) == TotalOf(table, DOMAIN table)

\* POST /chat
ProcessMessage(message, session_id) ==
    /\ \E uuid \in FreshUuids(session_id), reply \in AiReplies :
       \E got \in {get_or_create_session(sessions, session_id, now, uuid)} :
          /\ TotalMessages(got.sessions) < MaxHistory
          /\ \E r \in {process_message(sessions, message, session_id, now, uuid, reply)} :
                /\ sessions' = r.sessions
                /\ added' = AddedAfter(r.sessions, got.session_id, got.created,
                                       <<HistoryEntry("user", r.user, now),
                                         HistoryEntry("model", r.result.response, now)>>)
                /\ ret' = r.result
    /\ pc' = "done"
    /\ op' = "process_message"
    /\ args' = [message |-> message, session_id |-> session_id]
    /\ UNCHANGED <<now, leads, generatorVars, watermarkVars, editorVars>>

NextChat ==
    \/ \E d \in Advances : Tick(d)
    \/ \E session_id \in SessionArgs : GetOrCreateSession(session_id)
    \/ \E message \in ChatMessages, session_id \in SessionArgs :
          ProcessMessage(message, session_id)

SpecChat == InitChat /\ [][NextChat]_vars

----------------------------------------------------------------------------
(* Claims on the chat sessions *)

\* the last n elements of s, for n <= Len(s)
Newest(s, n) == SubSeq(s, Len(s) - n + 1, Len(s))

\* C22: after any sequence of add_message calls the history of a session holds at
\* most 2 * MAX_CONVERSATION_HISTORY messages, and they are the most recent messages
\* given to add_message, in the order they were given: trimming drops the oldest.
C22_HistoryIsRecent ==
    \A sid \in DOMAIN sessions :
        LET history == sessions[sid].history
            given == added[sid]
        IN  /\ Len(history) <= 2 * MAX_CONVERSATION_HISTORY
            /\ Len(history) <= Len(given)
            /\ history = Newest(given, Len(history))
            /\ Len(given) >= 2 * MAX_CONVERSATION_HISTORY
                  => Len(history) = 2 * MAX_CONVERSATION_HISTORY
            /\ Len(given) < 2 * MAX_CONVERSATION_HISTORY => history = given

\* the history was trimmed more than once and the dropped and the kept messages differ
C22_Witness ==
    /\ pc = "done" /\ op = "add_message"
    /\ Len(added["s1"]) > 2 * MAX_CONVERSATION_HISTORY + 1
    /\ added["s1"][Len(added["s1"])].content = <<"b">>
    /\ sessions["s1"].history[1] # added["s1"][1]

\* a request step that called get_or_create_session for the greeting
LookupStep == op' = "get_or_create_session" /\ pc' = "done" /\ now' = now

\* the id sent names a stored session that has not expired
Known(session_id) ==
    /\ Truthy(session_id)
    /\ session_id \in DOMAIN sessions
    /\ ~(now > sessions[session_id].last_activity + SESSION_TIMEOUT_HOURS)

\* a session just made under the id sid
NewlyStored(session, sid) ==
    /\ session.session_id = sid
    /\ session.history = <<>>
    /\ sid \in DOMAIN sessions'
    /\ sessions'[sid] = session

\* C23: get_or_create_session returns the stored session, history intact, for the id
\* of a stored session that has not expired; for an unknown id, or the id of a
\* session idle for more than SESSION_TIMEOUT_HOURS, it returns a new session with
\* empty history stored under that id; without an id it makes a session under a
\* fresh id; after the call the table holds no expired session.
C23_SessionLookup ==
    [][LookupStep =>
        /\ Known(args'.session_id) =>
              /\ ret'.session = sessions[args'.session_id]
              /\ sessions'[args'.session_id] = sessions[args'.session_id]
        /\ (Truthy(args'.session_id) /\ ~Known(args'.session_id)) =>
              NewlyStored(ret'.session, args'.session_id)
        /\ ~Truthy(args'.session_id) =>
              /\ ret'.session.session_id \notin DOMAIN sessions
              /\ Truthy(ret'.session.session_id)
              /\ NewlyStored(ret'.session, ret'.session.session_id)
        /\ \A sid \in DOMAIN sessions' :
              ~(now' > sessions'[sid].last_activity + SESSION_TIMEOUT_HOURS)
    ]_vars

\* a session stored under a fresh id was returned with its history when idle for the
\* timeout exactly, and the table holds a second session, made later
C23_Witness ==
    /\ pc = "done" /\ op = "get_or_create_session"
    /\ args.session_id = "u1"
    /\ ret.session.history # <<>>
    /\ now = ret.session.last_activity + SESSION_TIMEOUT_HOURS
    /\ DOMAIN sessions = {"s1", "u1"}
    /\ sessions["s1"].created_at > 0

\* a request step that called process_message
ChatStep == op' = "process_message" /\ pc' = "done" /\ now' = now

\* the history of the session the request is served with, as process_message finds it
HistoryFound(session_id) ==
    IF Known(session_id) THEN sessions[session_id].history ELSE <<>>

\* the response the priority order gives for a history found, the intents of the
\* message and its FAQ answer, or None when it is left to the AI
ByPriority(found, intent, faq_response) ==
    IF found = <<>> /\ intent.is_greeting THEN GREETING_MESSAGE
    ELSE IF faq_response # None THEN faq_response
    ELSE IF intent.wants_quote \/ intent.wants_register THEN QuoteResponse
    ELSE IF intent.asks_services THEN ServicesResponse
    ELSE IF intent.asks_contact THEN ContactResponse
    ELSE None

\* what C24 says of a request, its response and the history after it
PriorityKept(found, intent, faq_response, result, after) ==
    LET greeted == found = <<>> /\ intent.is_greeting
    IN  /\ IF ByPriority(found, intent, faq_response) = None
           THEN result.response \in {reply.text : reply \in AiReplies}
           ELSE result.response = ByPriority(found, intent, faq_response)
        /\ (~greeted /\ faq_response # None) =>
              /\ result.response = faq_response
              /\ result.action = "none"
        /\ result.action = "collect_lead" => (~greeted /\ faq_response = None)
        /\ Len(after) = Len(found) + 2
        /\ SubSeq(after, 1, Len(found)) = found
        /\ after[Len(after) - 1].role = "user"
        /\ after[Len(after)].role = "model"
        /\ after[Len(after)].content = result.response

\* C24: process_message picks its handler in the order greeting (empty history and
\* a greeting), FAQ match, quote or registration intent, services, contact, AI
\* fallback; so a message with an FAQ keyword gets the FAQ answer with action "none"
\* even when it carries a quote intent, "collect_lead" is returned only when neither
\* the greeting nor an FAQ applied, and the call appends one user message followed
\* by one model message, the response, to the history of the session.
C24_HandlerPriority ==
    [][ChatStep =>
        \A intent \in {analyze_intent(args'.message)},
           faq_response \in {get_faq_response(args'.message)} :
            PriorityKept(HistoryFound(args'.session_id), intent, faq_response, ret',
                         sessions'[ret'.session_id].history)
    ]_vars

\* a message with an FAQ keyword and a quote intent, and a greeting in it, came to a
\* session with a history and got the FAQ answer
C24_Witness ==
    /\ pc = "done" /\ op = "process_message"
    /\ analyze_intent(args.message).wants_quote
    /\ analyze_intent(args.message).is_greeting
    /\ ret.response = FaqAnswer("cost_2bhk_3bhk")
    /\ ret.action = "none"
    /\ Len(sessions[ret.session_id].history) = 4

----------------------------------------------------------------------------
(* LeadService (services/lead_service.py): the leads file *)

\* the file holds at most MaxLeads leads in the model
MaxLeads == 2

\* the hours of the duplicate window: 24 * 60 * 60 seconds
DuplicateWindowHours == 24

\* str(created_at) as json.dump writes a datetime, and datetime.fromisoformat of it
Iso(t) == <<"iso", t>>
FromIso(text) == text[2]

\* Lead(...) of create_lead
Lead(id, lead_data, session_id, t) ==
    [id |-> id, name |-> lead_data.name, mobile |-> lead_data.mobile,
     location |-> lead_data.location, house_type |-> lead_data.house_type,
     budget_range |-> lead_data.budget_range,
     session_id |-> IF Truthy(session_id) THEN session_id ELSE lead_data.session_id,
     created_at |-> t, source |-> "chatbot"]

\* lead.model_dump() as it is read back from the file: the datetime is a string
Dumped(lead) == [lead EXCEPT !.created_at = Iso(lead.created_at)]

\* the time of a stored lead, as _check_recent_duplicate reads it
LeadTime(lead) == FromIso(lead.created_at)

\* the stored leads with the mobile whose time is after the cutoff
RecentWith(stored, mobile, cutoff) ==
    {i \in 1..Len(stored) : stored[i].mobile = mobile /\ LeadTime(stored[i]) > cutoff}

\* None where a stored lead is expected
NoLead == [none |-> TRUE]

\* a variant that takes a lead created at the cutoff exactly as recent
_check_recent_duplicate_inclusive(stored, mobile, t) ==
    LET cutoff == t - DuplicateWindowHours
        recent == {i \in 1..Len(stored) :
                      stored[i].mobile = mobile /\ LeadTime(stored[i]) >= cutoff}
    IN  IF recent = {} THEN NoLead
        ELSE stored[CHOOSE i \in recent : \A j \in recent : i <= j]

\* LeadService._check_recent_duplicate at time t: the first such lead, or None
_check_recent_duplicate(stored, mobile, t) ==
    LET cutoff == t - DuplicateWindowHours
        recent == RecentWith(stored, mobile, cutoff)
    IN  IF recent = {} THEN NoLead
        ELSE stored[CHOOSE i \in recent : \A j \in recent : i <= j]

\* dict.update: the keys of changes are set, the other keys are kept
DictUpdate(dict, changes) == changes @@ dict

\* LeadService._update_existing_lead at time t: the file after it and the lead returned
_update_existing_lead(stored, existing, new_lead, t) ==
    LET same == {i \in 1..Len(stored) : stored[i].id = existing.id}
    IN  IF same = {} THEN [leads |-> stored, lead |-> new_lead]
        ELSE LET i == CHOOSE k \in same : \A j \in same : k <= j
             IN  [leads |->
                     [stored EXCEPT ![i] =
                         DictUpdate(@, [name |-> new_lead.name,
                                        location |-> new_lead.location,
                                        house_type |-> new_lead.house_type,
                                        budget_range |-> new_lead.budget_range,
                                        updated_at |-> Iso(t)])],
                  lead |-> [new_lead EXCEPT !.id = existing.id]]

\* LeadService.create_lead at time t; uuid is the value of uuid.uuid4()
create_lead(stored, lead_data, session_id, t, uuid) ==
    LET lead == Lead(uuid, lead_data, session_id, t)
        recent_duplicate == _check_recent_duplicate(stored, lead.mobile, t)
    IN  IF recent_duplicate # NoLead
        THEN _update_existing_lead(stored, recent_duplicate, lead, t)
        ELSE [leads |-> Append(stored, Dumped(lead)), lead |-> lead]

----------------------------------------------------------------------------
(* SpecLead: registrations over time *)

Mobiles == {"9000000001", "9000000002"}

\* the requests of POST /register
LeadRequests ==
    {[name |-> "Asha", mobile |-> m, location |-> "Pune", house_type |-> "1BHK",
      budget_range |-> "5-10 lakhs", session_id |-> None] : m \in Mobiles}
    \cup
    {[name |-> "Ravi", mobile |-> m, location |-> "Mumbai", house_type |-> "2BHK",
      budget_range |-> "10-20 lakhs", session_id |-> None] : m \in Mobiles}

\* the values uuid.uuid4() gives
LeadUuids == {<<"uuid", k>> : k \in 1..(MaxLeads + 1)}

StoredIds(stored) == {stored[i].id : i \in 1..Len(stored)}

InitLead ==
    /\ pc = "idle"
    /\ op = "none"
    /\ args = <<>>
    /\ ret = NoRet
    /\ GeneratorIdle
    /\ ServicesAtStart /\ WatermarkAtStart /\ EditorAtStart

\* POST /register
CreateLead(lead_data) ==
    /\ \E uuid \in LeadUuids \ StoredIds(leads) :
       \E r \in {create_lead(leads, lead_data, None, now, uuid)} :
          /\ Len(r.leads) <= MaxLeads
          /\ leads' = r.leads
          /\ ret' = r.lead
    /\ pc' = "done"
    /\ op' = "create_lead"
    /\ args' = [lead_data |-> lead_data]
    /\ UNCHANGED <<now, sessions, added, generatorVars, watermarkVars, editorVars>>

NextLead ==
    \/ \E d \in Advances : Tick(d)
    \/ \E lead_data \in LeadRequests : CreateLead(lead_data)

SpecLead == InitLead /\ [][NextLead]_vars

----------------------------------------------------------------------------
(* Claim on the leads *)

\* a step that registered a lead
RegisterStep == op' = "create_lead" /\ pc' = "done" /\ now' = now

\* the stored leads with the mobile that are younger than 24 hours
YoungWith(mobile) ==
    {i \in 1..Len(leads) :
        leads[i].mobile = mobile /\ now - LeadTime(leads[i]) < DuplicateWindowHours}

\* the stored lead took the values of the request
Took(lead, lead_data) ==
    /\ lead.name = lead_data.name
    /\ lead.location = lead_data.location
    /\ lead.house_type = lead_data.house_type
    /\ lead.budget_range = lead_data.budget_range

\* C25: create_lead makes no duplicate for a mobile seen in the last 24 hours: when a
\* stored lead with the mobile is younger than 24 hours the number of stored leads
\* does not grow, that lead keeps its id and created_at and takes the name,
\* location, house_type and budget_range of the request, and the returned lead
\* carries its id; otherwise one new lead with a fresh id is appended and every
\* lead stored before is unchanged.
C25_NoRecentDuplicate ==
    [][RegisterStep =>
        IF YoungWith(args'.lead_data.mobile) # {}
        THEN /\ Len(leads') = Len(leads)
             /\ \E i \in YoungWith(args'.lead_data.mobile) :
                   /\ leads'[i].id = leads[i].id
                   /\ leads'[i].created_at = leads[i].created_at
                   /\ leads'[i].mobile = leads[i].mobile
                   /\ Took(leads'[i], args'.lead_data)
                   /\ ret'.id = leads[i].id
                   /\ \A j \in 1..Len(leads) : j # i => leads'[j] = leads[j]
        ELSE /\ Len(leads') = Len(leads) + 1
             /\ SubSeq(leads', 1, Len(leads)) = leads
             /\ leads'[Len(leads')].id \notin StoredIds(leads)
             /\ leads'[Len(leads')].mobile = args'.lead_data.mobile
             /\ Took(leads'[Len(leads')], args'.lead_data)
             /\ ret'.id = leads'[Len(leads')].id
    ]_vars

\* two leads of one mobile are stored, the first older than the window when the
\* second came, and the second was updated by a third registration
C25_Witness ==
    /\ pc = "done" /\ op = "create_lead"
    /\ Len(leads) = 2
    /\ leads[1].mobile = leads[2].mobile
    /\ LeadTime(leads[2]) = LeadTime(leads[1]) + DuplicateWindowHours
    /\ "updated_at" \in DOMAIN leads[2]
    /\ leads[2].name # leads[1].name
    /\ ret.id = leads[2].id

----------------------------------------------------------------------------
(* Batch watermark remover (src/watermark_remover.py) *)

\* the uploader holds at most MaxFiles files in the model
MaxFiles == 3

\* b"" of Python
EmptyBytes == <<>>

\* what the API does with one image: the result of the upload, of the modification
\* and of the download request
ServerBehaviours ==
    {[upload |-> "ok", modify |-> "ok", download |-> "ok"],
     [upload |-> "http error", modify |-> "ok", download |-> "ok"],
     [upload |-> "no ids", modify |-> "ok", download |-> "ok"],
     [upload |-> "ok", modify |-> "timeout", download |-> "ok"],
     [upload |-> "ok", modify |-> "no id", download |-> "ok"],
     [upload |-> "ok", modify |-> "ok", download |-> "http error"],
     [upload |-> "ok", modify |-> "ok", download |-> "empty"]}

\* the content the API returns for a file
Cleaned(file_name) == <<"cleaned", file_name>>

\* a variant that lets a timeout escape
Caught_but_timeout(failure) ==
    IF failure = "timeout"
    THEN [raised |-> TRUE, image_data |-> None, error |-> "Request timed out"]
    ELSE [raised |-> FALSE, image_data |-> None, error |-> failure]

\* what the except clauses of process_single_image return for a failed request
Caught(failure) ==
    IF failure = "timeout"
    THEN [raised |-> FALSE, image_data |-> None, error |-> "Request timed out"]
    ELSE [raised |-> FALSE, image_data |-> None, error |-> failure]

\* process_single_image for a file and a behaviour of the API
process_single_image(file_name, server) ==
    IF server.upload \in {"http error", "timeout"} THEN Caught(server.upload)
    ELSE IF server.upload = "no ids"
    THEN [raised |-> FALSE, image_data |-> None,
          error |-> "Failed to upload: missing session_id or image_id"]
    ELSE IF server.modify \in {"http error", "timeout"} THEN Caught(server.modify)
    ELSE IF server.modify = "no id"
    THEN [raised |-> FALSE, image_data |-> None,
          error |-> "Failed to modify: missing new_image_id"]
    ELSE IF server.download \in {"http error", "timeout"} THEN Caught(server.download)
    ELSE [raised |-> FALSE,
          image_data |-> IF server.download = "empty" THEN EmptyBytes
                         ELSE Cleaned(file_name),
          error |-> None]

\* the truth value of image_data
HasData(image_data) == image_data # None /\ image_data # EmptyBytes

\* one turn of the loop over uploaded_files, for the result r of process_single_image;
\* an exception that escapes ends the script
loop_body(state, file_name, r) ==
    IF r.raised
    THEN [loop |-> [state.loop EXCEPT !.active = FALSE, !.aborted = TRUE],
          processed_images |-> state.processed_images]
    ELSE IF HasData(r.image_data)
    THEN [loop |-> [state.loop EXCEPT
                       !.idx = @ + 1,
                       !.successful = @ + 1,
                       !.results = Append(@, [name |-> file_name, ok |-> TRUE])],
          processed_images |->
              Append(state.processed_images, [name |-> file_name, data |-> r.image_data])]
    ELSE [loop |-> [state.loop EXCEPT
                       !.idx = @ + 1,
                       !.failed = @ + 1,
                       !.failed_files = Append(@, [name |-> file_name, error |-> r.error]),
                       !.results = Append(@, [name |-> file_name, ok |-> FALSE])],
          processed_images |-> state.processed_images]

----------------------------------------------------------------------------
(* SpecWatermark: the page of the watermark remover *)

FileNames == {"a.png", "b.jpg"}
FileLists == SeqUpTo(FileNames, MaxFiles)

InitWatermark ==
    /\ pc = "idle"
    /\ op = "none"
    /\ args = <<>>
    /\ ret = NoRet
    /\ GeneratorIdle
    /\ ServicesAtStart /\ WatermarkAtStart /\ EditorAtStart

\* the files of the uploader are changed: the script runs again, the locals of an
\* earlier run are gone, the session state stays
ChooseFiles(files) ==
    /\ ~loop.active
    /\ files # uploaded_files
    /\ uploaded_files' = files
    /\ loop' = NoLoop
    /\ pc' = "idle"
    /\ op' = "choose_files"
    /\ UNCHANGED <<args, ret, processed_images, processing_complete, serviceVars,
                   generatorVars, editorVars>>

\* Remove Watermarks is pressed: the state is reset and the loop starts
StartProcessing ==
    /\ ~loop.active
    /\ uploaded_files # <<>>
    /\ processed_images' = <<>>
    /\ processing_complete' = FALSE
    /\ loop' = [NoLoop EXCEPT !.active = TRUE]
    /\ pc' = "running"
    /\ op' = "remove_watermarks"
    /\ UNCHANGED <<args, ret, uploaded_files, serviceVars, generatorVars, editorVars>>

\* one file is processed
ProcessImage(server) ==
    /\ loop.active
    /\ loop.idx < Len(uploaded_files)
    /\ \E file_name \in {uploaded_files[loop.idx + 1]} :
       \E r \in {loop_body([loop |-> loop, processed_images |-> processed_images], file_name,
                           process_single_image(file_name, server))} :
          /\ loop' = r.loop
          /\ processed_images' = r.processed_images
          /\ pc' = IF r.loop.aborted THEN "failed" ELSE "running"
    /\ UNCHANGED <<op, args, ret, uploaded_files, processing_complete, serviceVars,
                   generatorVars, editorVars>>

\* the loop is over: the run is complete and the summary is shown
CompleteProcessing ==
    /\ loop.active
    /\ loop.idx = Len(uploaded_files)
    /\ processing_complete' = TRUE
    /\ loop' = [loop EXCEPT !.active = FALSE]
    /\ pc' = "done"
    /\ UNCHANGED <<op, args, ret, uploaded_files, processed_images, serviceVars,
                   generatorVars, editorVars>>

NextWatermark ==
    \/ \E files \in FileLists : ChooseFiles(files)
    \/ StartProcessing
    \/ \E server \in ServerBehaviours : ProcessImage(server)
    \/ CompleteProcessing

SpecWatermark == InitWatermark /\ [][NextWatermark]_vars

----------------------------------------------------------------------------
(* Claim on the batch of the watermark remover *)

\* the files of the results that succeeded, in order
RECURSIVE Succeeded(_)
Succeeded(results) ==
    IF results = <<>> THEN <<>>
    ELSE IF results[Len(results)].ok
    THEN Append(Succeeded(SubSeq(results, 1, Len(results) - 1)), results[Len(results)].name)
    ELSE Succeeded(SubSeq(results, 1, Len(results) - 1))

NamesOf(images) == [i \in 1..Len(images) |-> images[i].name]

\* a run of the batch has come to its end
RunOver == pc \in {"done", "failed"} /\ op = "remove_watermarks"

\* C26: a failure on one image (a failed or timed-out upload, modify or download
\* step, or a response without ids) does not stop the batch: every uploaded file is
\* processed once, in upload order; at the end successful + failed is the number of
\* uploaded files, processed_images holds the successful images in upload order and
\* processing_complete is true; a run starts with processed_images emptied.
C26_BatchCompletes ==
    /\ ~loop.aborted
    /\ pc = "running" =>
          /\ loop.idx = Len(loop.results)
          /\ \A i \in 1..loop.idx : loop.results[i].name = uploaded_files[i]
          /\ NamesOf(processed_images) = Succeeded(loop.results)
          /\ ~processing_complete
    /\ RunOver =>
          /\ Len(loop.results) = Len(uploaded_files)
          /\ \A i \in 1..Len(uploaded_files) : loop.results[i].name = uploaded_files[i]
          /\ loop.successful + loop.failed = Len(uploaded_files)
          /\ loop.successful = Len(processed_images)
          /\ NamesOf(processed_images) = Succeeded(loop.results)
          /\ \A i \in 1..Len(processed_images) :
                processed_images[i].data = Cleaned(processed_images[i].name)
          /\ processing_complete

\* a run of three files is over: the first timed out, the second succeeded, the
\* third came back without ids
C26_Witness ==
    /\ RunOver
    /\ Len(uploaded_files) = 3
    /\ loop.failed = 2 /\ loop.successful = 1
    /\ loop.failed_files[1].error = "Request timed out"
    /\ loop.results[2].ok
    /\ Len(processed_images) = 1

----------------------------------------------------------------------------
(* Interior-design editor (src/app.py): the generated image and its versions *)

\* edit_history holds at most MaxVersions entries in the model, a response of the
\* image model at most MaxParts images
MaxVersions == 3
MaxParts == 2

\* the images the image model returns, resized
Images == {"image A", "image B"}

\* the parts of a response that carry an image, in order
Responses == SeqUpTo(Images, MaxParts)

EditInstructions == {"add plants"}

\* initial generation: every image part becomes the generated image and a version
RECURSIVE GenerateParts(_, _)
GenerateParts(state, parts) ==
    IF parts = <<>> THEN state
    ELSE GenerateParts(
             [generated_image |-> Head(parts),
              edit_history |-> Append(state.edit_history,
                                      [image |-> Head(parts),
                                       prompt |-> "Initial generation"])],
             Tail(parts))

\* apply changes: the first image part becomes the generated image and a version,
\* then the script is run again
ApplyParts(state, parts, edit_instruction, has_reference) ==
    IF parts = <<>> THEN state
    ELSE [generated_image |-> Head(parts),
          edit_history |-> Append(state.edit_history,
                                  [image |-> Head(parts), prompt |-> edit_instruction,
                                   has_reference |-> has_reference])]

\* the restore button of version idx + 1
RestoreVersion(state, idx) ==
    [generated_image |-> state.edit_history[idx + 1].image,
     edit_history |-> state.edit_history]

\* the undo button
UndoLast(state) ==
    LET popped == SubSeq(state.edit_history, 1, Len(state.edit_history) - 1)
    IN  IF popped # <<>>
        THEN [generated_image |-> popped[Len(popped)].image, edit_history |-> popped]
        ELSE [generated_image |-> state.generated_image, edit_history |-> popped]

EditorState == [generated_image |-> generated_image, edit_history |-> edit_history]

InitEditor ==
    /\ pc = "idle"
    /\ op = "none"
    /\ args = <<>>
    /\ ret = NoRet
    /\ GeneratorIdle
    /\ ServicesAtStart /\ WatermarkAtStart /\ EditorAtStart

\* a room image is put into the uploader, or taken out of it
UploadImage ==
    /\ uploaded_image' = ~uploaded_image
    /\ pc' = "done"
    /\ op' = "upload"
    /\ UNCHANGED <<args, ret, generated_image, edit_history, serviceVars, generatorVars,
                   watermarkVars>>

\* Generate Interior Design, with the image parts of the response; a failed request
\* stops the script with the state as it was
Generate(failed, parts) ==
    /\ uploaded_image
    /\ Len(edit_history) + Len(parts) <= MaxVersions
    /\ \E r \in {IF failed THEN EditorState ELSE GenerateParts(EditorState, parts)} :
          /\ generated_image' = r.generated_image
          /\ edit_history' = r.edit_history
    /\ pc' = "done"
    /\ op' = "generate"
    /\ UNCHANGED <<args, ret, uploaded_image, serviceVars, generatorVars, watermarkVars>>

\* Apply Changes, shown with a generated image and enabled by an instruction
ApplyChanges(failed, parts, edit_instruction, has_reference) ==
    /\ generated_image # None
    /\ Len(edit_history) < MaxVersions
    /\ \E r \in {IF failed THEN EditorState
                 ELSE ApplyParts(EditorState, parts, edit_instruction, has_reference)} :
          /\ generated_image' = r.generated_image
          /\ edit_history' = r.edit_history
    /\ pc' = "done"
    /\ op' = "apply"
    /\ UNCHANGED <<args, ret, uploaded_image, serviceVars, generatorVars, watermarkVars>>

\* Undo Last Change, shown with more than one version
Undo ==
    /\ generated_image # None
    /\ Len(edit_history) > 1
    /\ \E r \in {UndoLast(EditorState)} :
          /\ generated_image' = r.generated_image
          /\ edit_history' = r.edit_history
    /\ pc' = "done"
    /\ op' = "undo"
    /\ UNCHANGED <<args, ret, uploaded_image, serviceVars, generatorVars, watermarkVars>>

\* Reset
Reset ==
    /\ generated_image # None
    /\ generated_image' = None
    /\ edit_history' = <<>>
    /\ pc' = "done"
    /\ op' = "reset"
    /\ UNCHANGED <<args, ret, uploaded_image, serviceVars, generatorVars, watermarkVars>>

\* Restore v(idx + 1), shown for every version but the last
Restore(idx) ==
    /\ generated_image # None
    /\ Len(edit_history) > 1
    /\ idx \in 0..(Len(edit_history) - 2)
    /\ \E r \in {RestoreVersion(EditorState, idx)} :
          /\ generated_image' = r.generated_image
          /\ edit_history' = r.edit_history
    /\ pc' = "done"
    /\ op' = "restore"
    /\ UNCHANGED <<args, ret, uploaded_image, serviceVars, generatorVars, watermarkVars>>

NextEditor ==
    \/ UploadImage
    \/ \E failed \in BOOLEAN, parts \in Responses : Generate(failed, parts)
    \/ \E failed \in BOOLEAN, parts \in Responses, edit_instruction \in EditInstructions,
          has_reference \in BOOLEAN :
          ApplyChanges(failed, parts, edit_instruction, has_reference)
    \/ Undo
    \/ Reset
    \/ \E idx \in 0..(MaxVersions - 1) : Restore(idx)

SpecEditor == InitEditor /\ [][NextEditor]_vars

----------------------------------------------------------------------------
(* Claim on the editor *)

\* C30: after any sequence of Generate, Apply Changes, Undo Last Change, Restore vN
\* and Reset, generated_image is None exactly when edit_history is empty, Undo has
\* not emptied a history, and a generated image is the image of the last entry of
\* edit_history, so that "Version len(edit_history)" names the image shown.
C30_ShownIsLastVersion ==
    /\ generated_image = None <=> edit_history = <<>>
    /\ op = "undo" => edit_history # <<>>
    /\ generated_image # None =>
          generated_image = edit_history[Len(edit_history)].image

====
